---------------------------- MODULE Spec2Model ----------------------------
(***************************************************************************)
(* JanOS device session engine (JanOS_dev_0.0.1.py): the serial Transport, *)
(* the network-line classifier of NetworkManager, the feature flags,       *)
(* cancellation events and telemetry listener threads of the JanOS         *)
(* session, and the shutdown paths (menu exit, end of input, cleanup,      *)
(* signal handler).                                                        *)
(*                                                                         *)
(* Text is modelled as sequences of one-character strings, so that the     *)
(* string operations of the source (startswith, split, strip, in, lower)   *)
(* are computed character by character as Python computes them.           *)
(***************************************************************************)
EXTENDS Integers, Sequences, FiniteSets, TLC

VARIABLES
    \* ---- foreground control flow -----------------------------------------
    pc,                   \* where the foreground (main thread) is
    exiting,              \* SystemExit raised by signal_handler is propagating
    setup_for,            \* which setup flow get_html_files_from_sd serves
    \* ---- JanOS.__init__ fields ----------------------------------------------
    attack_running, blackout_running, sniffer_running, sae_overflow_running,
    handshake_running, portal_running, evil_twin_running,
    sniffer_packets,      \* packet count last reported by the sniffer
    stop_sniffer_event, stop_portal_event, stop_evil_twin_event,
    sniffer_thread, portal_thread, evil_twin_thread,
    threads,              \* every listener thread started so far
    \* ---- SerialManager ---------------------------------------------------------
    closes,               \* number of SerialManager.close invocations
    sent,                 \* writes attempted by the operation in progress
    \* ---- NetworkManager ------------------------------------------------------
    networks, network_count, selected_networks, scan_done,
    \* ---- observation -----------------------------------------------------------
    stop_all_streak,      \* consecutive stop_all_attacks calls just made (max 2)
    streak_stops,         \* stop commands written during that streak
    \* ---- classifier under test (SpecNet) ------------------------------------
    line, phase,
    \* ---- show_sniffer_probes under test (SpecProbe) ------------------------
    response,             \* the lines read_response returned
    probes,               \* the rows of the probe table printed
    probe_count,          \* the number of probe requests reported
    \* ---- read_response under test (SpecRead) --------------------------------
    wire,                 \* the lines the device has still to send
    taken,                \* the lines readline() has returned
    elapsed,              \* time.time() - start_time, in 0.1 s sleeps
    last_read,            \* elapsed when the last line was read
    \* ---- portal and evil twin telemetry (JanOS.__init__ fields) ----------
    submitted_forms, last_submitted_data, client_count,
    evil_twin_captured_data, evil_twin_client_count,
    \* ---- SerialManager.send_command step by step (SpecSend) -------------
    send_pc,              \* where send_command is
    command,              \* its argument
    io                    \* what it has done on the port and the terminal

vars == << pc, exiting, setup_for,
           attack_running, blackout_running, sniffer_running,
           sae_overflow_running, handshake_running, portal_running,
           evil_twin_running, sniffer_packets,
           stop_sniffer_event, stop_portal_event, stop_evil_twin_event,
           sniffer_thread, portal_thread, evil_twin_thread, threads,
           closes, sent,
           networks, network_count, selected_networks, scan_done,
           stop_all_streak, streak_stops, line, phase,
           response, probes, probe_count,
           wire, taken, elapsed, last_read,
           submitted_forms, last_submitted_data, client_count,
           evil_twin_captured_data, evil_twin_client_count,
           send_pc, command, io >>

flagVars == << attack_running, blackout_running, sniffer_running,
               sae_overflow_running, handshake_running, portal_running,
               evil_twin_running >>
eventVars == << stop_sniffer_event, stop_portal_event, stop_evil_twin_event >>
threadVars == << sniffer_thread, portal_thread, evil_twin_thread, threads >>
netVars == << networks, network_count, selected_networks, scan_done >>
probeVars == << response, probes, probe_count >>
readVars == << wire, taken, elapsed, last_read >>
testVars == << line, phase, probeVars, readVars >>
portalVars == << submitted_forms, last_submitted_data, client_count >>
evilTwinVars == << evil_twin_captured_data, evil_twin_client_count >>
sendVars == << send_pc, command, io >>

-----------------------------------------------------------------------------
(* Bounds of the model.                                                    *)

\* listener threads one session may start
MaxThreads == 2
\* the classifier is tried on lines of up to MaxFields quoted fields
MaxFields == 9

-----------------------------------------------------------------------------
(* Text helpers: Python str operations over character sequences.           *)

QUOTE == "\""

\* '","', the delimiter parse_network_line splits on
DELIM == << "\"", ",", "\"" >>

HIDDEN == << "<", "h", "i", "d", "d", "e", "n", ">" >>

SENTINEL == << "S", "c", "a", "n", " ", "r", "e", "s", "u", "l", "t", "s",
               " ", "p", "r", "i", "n", "t", "e", "d" >>

\* s[i:].startswith(d), with i counted from 1
IsPrefixAt(s, d, i) ==
    /\ i + Len(d) - 1 <= Len(s)
    /\ \A k \in 1..Len(d) : s[i + k - 1] = d[k]

\* s.startswith(d)
startswith(s, d) == IsPrefixAt(s, d, 1)

\* d in s
Contains(s, d) == \E i \in 1..(Len(s) + 1) : IsPrefixAt(s, d, i)

RECURSIVE SplitFrom(_, _, _, _)
SplitFrom(s, d, i, start) ==
    IF i + Len(d) - 1 > Len(s)
    THEN << SubSeq(s, start, Len(s)) >>
    ELSE IF IsPrefixAt(s, d, i)
         THEN << SubSeq(s, start, i - 1) >>
                \o SplitFrom(s, d, i + Len(d), i + Len(d))
         ELSE SplitFrom(s, d, i + 1, start)

\* s.split(d): left to right, non-overlapping occurrences of d
split(s, d) == SplitFrom(s, d, 1, 1)

RECURSIVE lstrip(_, _)
lstrip(s, c) ==
    IF s # << >> /\ Head(s) = c THEN lstrip(Tail(s), c) ELSE s

RECURSIVE rstrip(_, _)
rstrip(s, c) ==
    IF s # << >> /\ s[Len(s)] = c
    THEN rstrip(SubSeq(s, 1, Len(s) - 1), c)
    ELSE s

\* s.strip(c): every leading and every trailing c is removed
strip(s, c) == rstrip(lstrip(s, c), c)

Digits == << "0", "1", "2", "3", "4", "5", "6", "7", "8", "9" >>

IsDigit(c) == \E d \in 1..Len(Digits) : Digits[d] = c

\* \s of the re module, for the characters the inputs use
IsSpace(c) == c \in { " ", "\t" }

UPPER == << "A", "B", "C", "D", "E", "F", "G", "H", "I", "J", "K", "L", "M",
            "N", "O", "P", "Q", "R", "S", "T", "U", "V", "W", "X", "Y", "Z" >>

LOWER == << "a", "b", "c", "d", "e", "f", "g", "h", "i", "j", "k", "l", "m",
            "n", "o", "p", "q", "r", "s", "t", "u", "v", "w", "x", "y", "z" >>

\* s.lower()
lower(s) ==
    [k \in 1..Len(s) |->
        IF \E u \in 1..Len(UPPER) : UPPER[u] = s[k]
        THEN LOWER[CHOOSE u \in 1..Len(UPPER) : UPPER[u] = s[k]]
        ELSE s[k]]

\* the value of a decimal digit
DigitValue(c) == (CHOOSE d \in 1..Len(Digits) : Digits[d] = c) - 1

\* int(s) for a string of decimal digits
RECURSIVE int(_)
int(s) ==
    IF s = << >> THEN 0
    ELSE int(SubSeq(s, 1, Len(s) - 1)) * 10 + DigitValue(s[Len(s)])

\* where a greedy \d+ tried at position i ends (i - 1: no digit at i)
RECURSIVE DigitsEnd(_, _)
DigitsEnd(s, i) ==
    IF i <= Len(s) /\ IsDigit(s[i]) THEN DigitsEnd(s, i + 1) ELSE i - 1

\* where a greedy \s* tried at position i ends (i - 1: no space at i)
RECURSIVE SpaceEnd(_, _)
SpaceEnd(s, i) ==
    IF i <= Len(s) /\ IsSpace(s[i]) THEN SpaceEnd(s, i + 1) ELSE i - 1

\* s.strip(): leading and trailing whitespace removed
RECURSIVE strip_ws(_)
strip_ws(s) ==
    IF s # << >> /\ IsSpace(Head(s)) THEN strip_ws(Tail(s))
    ELSE IF s # << >> /\ IsSpace(s[Len(s)])
         THEN strip_ws(SubSeq(s, 1, Len(s) - 1))
         ELSE s

-----------------------------------------------------------------------------
(* NetworkManager.                                                         *)

\* Optional[Dict]: << >> is None, << record >> is the record
None == << >>

\* NetworkManager.parse_network_line
parse_network_line(l) ==
    IF ~ startswith(l, << QUOTE >>)
    THEN None
    ELSE LET raw   == split(l, DELIM)
             parts == [k \in 1..Len(raw) |-> strip(raw[k], QUOTE)]
         IN  IF Len(parts) < 8
             THEN None
             ELSE << [ index   |-> parts[1],
                       ssid    |-> IF parts[2] # << >> THEN parts[2]
                                                        ELSE HIDDEN,
                       vendor  |-> parts[3],
                       bssid   |-> parts[4],
                       channel |-> parts[5],
                       auth    |-> parts[6],
                       rssi    |-> parts[7],
                       band    |-> parts[8] ] >>

\* add_network counting a line whose record it does not store
add_network_counts_every_line(nm, l) ==
    LET network == parse_network_line(l)
    IN  [ networks |-> IF network # None
                       THEN Append(nm.networks, network[1])
                       ELSE nm.networks,
          network_count |-> nm.network_count + 1 ]

\* NetworkManager.add_network, as the new value of (networks, network_count)
add_network(nm, l) ==
    LET network == parse_network_line(l)
    IN  IF network # None
        THEN [ networks |-> Append(nm.networks, network[1]),
               network_count |-> nm.network_count + 1 ]
        ELSE nm


-----------------------------------------------------------------------------
(* SerialManager.                                                          *)

\* pyserial's is_open: true from setup_serial until the first close
port_open == closes = 0

\* SerialManager.send_command appended to a write log: the write is
\* attempted, and succeeds only on an open port (on a closed port write
\* raises, the exception is caught and reported, nothing is sent)
send_command(log, c, a) ==
    Append(log, [cmd |-> c, arg |-> a, ok |-> port_open])

NoArg == << >>

-----------------------------------------------------------------------------
(* Listener threads.                                                       *)

\* a thread is at the head of its read_*_data loop ("loop"), inside
\* serial_conn.readline() ("reading"), or has returned ("dead")
Targets == { "sniffer", "portal", "evil_twin" }

\* a thread whose target function has returned
Dead == [target |-> "none", st |-> "dead"]

Alive(t) == threads[t].st # "dead"

AliveListeners == { t \in 1..Len(threads) : Alive(t) }

\* threading.Thread(target = read_<f>_data, ...).start()
spawn(th, f) == Append(th, [target |-> f, st |-> "loop"])

\* the stop event a listener of feature f polls
EventOf(f) ==
    IF f = "sniffer" THEN stop_sniffer_event
    ELSE IF f = "portal" THEN stop_portal_event
    ELSE stop_evil_twin_event

\* join() without its timeout: it returns only when the thread has exited,
\* and a listener inside a readline() that does not return is never joined
join_without_timeout(th, t) ==
    IF t = 0 \/ th[t].st = "dead" THEN { th }
    ELSE IF th[t].st = "loop" THEN { [th EXCEPT ![t] = Dead] }
    ELSE { }

\* `if thread: thread.join(timeout=2)`, called right after the thread's
\* stop event was set: a listener at its loop head sees the event within
\* one 0.1 s sleep and returns; a listener inside readline() returns in
\* time or is still reading when the 2 s grace period ends
join(th, t) ==
    IF t = 0 \/ th[t].st = "dead" THEN { th }
    ELSE IF th[t].st = "loop" THEN { [th EXCEPT ![t] = Dead] }
    ELSE { th, [th EXCEPT ![t] = Dead] }

\* SerialManager.read_sniffer_data / read_portal_data / read_evil_twin_data,
\* loop head: leave when the stop event is set; `in_waiting` on a closed
\* port raises outside the try and ends the thread; otherwise, with data
\* waiting, enter readline() (with none, sleep 0.1 s: no change of state)
listener_poll ==
    /\ pc # "done"
    /\ \E t \in 1..Len(threads) :
          /\ threads[t].st = "loop"
          /\ threads' = [threads EXCEPT ![t] =
                            IF EventOf(threads[t].target) \/ ~ port_open
                            THEN Dead ELSE [@ EXCEPT !.st = "reading"]]
    /\ UNCHANGED << pc, exiting, setup_for, flagVars, eventVars,
                    sniffer_thread, portal_thread, evil_twin_thread,
                    closes, sent, netVars, stop_all_streak, streak_stops,
                    testVars >>
    /\ UNCHANGED sniffer_packets
    /\ UNCHANGED << portalVars, evilTwinVars >>
    /\ UNCHANGED sendVars

TxtPacket == << "p", "a", "c", "k", "e", "t" >>
TxtPackets == << "p", "a", "c", "k", "e", "t", "s" >>
TxtCaptured == << "c", "a", "p", "t", "u", "r", "e", "d" >>
TxtCapturedColon == << "c", "a", "p", "t", "u", "r", "e", "d", ":" >>

\* r'(\d+)\s+packets?' with re.IGNORECASE matches at position i
PacketsMatchAt(s, i) ==
    /\ IsDigit(s[i])
    /\ LET j == DigitsEnd(s, i)
           k == SpaceEnd(s, j + 1)
       IN  k > j /\ IsPrefixAt(lower(s), TxtPacket, k + 1)

\* r'captured:\s*(\d+)' with re.IGNORECASE matches at position i
CapturedMatchAt(s, i) ==
    /\ IsPrefixAt(lower(s), TxtCapturedColon, i)
    /\ LET k == SpaceEnd(s, i + Len(TxtCapturedColon))
       IN  DigitsEnd(s, k + 1) > k

\* the count JanOS.update_sniffer_display reads in a line: group 1 of the
\* leftmost match of the first pattern, else, when the line contains
\* "captured", of the second; << >> when neither matches
packet_report(data) ==
    IF \E i \in 1..Len(data) : PacketsMatchAt(data, i)
    THEN LET i == CHOOSE i \in 1..Len(data) :
                    /\ PacketsMatchAt(data, i)
                    /\ \A h \in 1..(i - 1) : ~ PacketsMatchAt(data, h)
         IN  << int(SubSeq(data, i, DigitsEnd(data, i))) >>
    ELSE IF /\ Contains(lower(data), TxtCaptured)
            /\ \E i \in 1..Len(data) : CapturedMatchAt(data, i)
         THEN LET i == CHOOSE i \in 1..Len(data) :
                         /\ CapturedMatchAt(data, i)
                         /\ \A h \in 1..(i - 1) : ~ CapturedMatchAt(data, h)
                  k == SpaceEnd(data, i + Len(TxtCapturedColon))
              IN  << int(SubSeq(data, k + 1, DigitsEnd(data, k + 1))) >>
         ELSE << >>

\* the body of the read_sniffer_data loop for one line read: the line is
\* stripped, dropped when empty, and handed to the callback only when its
\* lower-case form contains "packets" or "captured"
read_sniffer_data_report(raw) ==
    LET l == strip_ws(raw)
    IN  IF /\ l # << >>
           /\ \/ Contains(lower(l), TxtPackets)
              \/ Contains(lower(l), TxtCaptured)
        THEN packet_report(l)
        ELSE << >>

\* lines the sniffer listener of the session may read
SnifferLines == { << "i", "n", "i", "t" >>, << "1", " ", "p", "a", "c", "k", "e", "t", "s" >>, << "c", "a", "p", "t", "u", "r", "e", "d", ":", " ", "1" >> }

\* what a line read by the sniffer listener reports: no packet count, or
\* the count of "<n> packets" / "captured: <n>"
SnifferReports == { read_sniffer_data_report(l) : l \in SnifferLines }

\* update_sniffer_display adding a reported count to the counter
update_sniffer_display_adds(count, report) ==
    IF report = << >> THEN count ELSE count + report[1]

\* JanOS.update_sniffer_display, the callback of the sniffer listener: a
\* reported count replaces the counter, any other line leaves it
update_sniffer_display(count, report) ==
    IF report = << >> THEN count ELSE report[1]

-----------------------------------------------------------------------------
(* The telemetry classifiers of the portal and evil twin listeners.        *)

TxtError == << "e", "r", "r", "o", "r" >>
TxtFailed == << "f", "a", "i", "l", "e", "d" >>
TxtStarted ==
    << "s", "t", "a", "r", "t", "e", "d", " ", "s", "u", "c", "c", "e", "s", "s", "f", "u", "l", "l", "y" >>
TxtBroadcasting ==
    << "b", "r", "o", "a", "d", "c", "a", "s", "t", "i", "n", "g" >>
TxtClientConnected ==
    << "C", "l", "i", "e", "n", "t", " ", "c", "o", "n", "n", "e", "c", "t",
    "e", "d" >>
TxtClientCount ==
    << "C", "l", "i", "e", "n", "t", " ", "c", "o", "u", "n", "t" >>
TxtClientCountEq ==
    << "C", "l", "i", "e", "n", "t", " ", "c", "o", "u", "n", "t", " ", "=",
    " " >>
TxtPassword == << "P", "a", "s", "s", "w", "o", "r", "d", ":" >>
TxtPasswordSp == << "P", "a", "s", "s", "w", "o", "r", "d", ":", " " >>
TxtFormData == << "F", "o", "r", "m", " ", "d", "a", "t", "a", ":" >>
TxtUsername == << "u", "s", "e", "r", "n", "a", "m", "e", ":" >>
TxtEmail == << "e", "m", "a", "i", "l", ":" >>
TxtPortalSaved ==
    << "P", "o", "r", "t", "a", "l", " ", "d", "a", "t", "a", " ", "s", "a",
    "v", "e", "d" >>
TxtEnabled == << "e", "n", "a", "b", "l", "e", "d" >>
TxtTrying ==
    << "t", "r", "y", "i", "n", "g", " ", "t", "o", " ", "c", "o", "n", "n",
    "e", "c", "t" >>
TxtAssociation ==
    << "a", "s", "s", "o", "c", "i", "a", "t", "i", "o", "n" >>
TxtHandshakeCaptured ==
    << "H", "a", "n", "d", "s", "h", "a", "k", "e", " ", "c", "a", "p", "t",
    "u", "r", "e", "d" >>
TxtPcap == << ".", "p", "c", "a", "p" >>
TxtCap == << ".", "c", "a", "p" >>
TxtHandshakeSaved ==
    << "h", "a", "n", "d", "s", "h", "a", "k", "e", " ", "s", "a", "v", "e",
    "d" >>
TxtInit == << "i", "n", "i", "t" >>
TxtClientCountOne ==
    << "C", "l", "i", "e", "n", "t", " ", "c", "o", "u", "n", "t", " ", "=",
    " ", "1" >>

\* re.search(r'Client count = (\d+)', data): the number of the leftmost
\* match in a one-element sequence, << >> without a match
client_count_match(data) ==
    LET n == Len(TxtClientCountEq)
        at == { i \in 1..Len(data) :
                   /\ IsPrefixAt(data, TxtClientCountEq, i)
                   /\ i + n <= Len(data)
                   /\ IsDigit(data[i + n]) }
    IN  IF at = { } THEN << >>
        ELSE LET i == CHOOSE j \in at : \A k \in at : j <= k
             IN  << int(SubSeq(data, i + n, DigitsEnd(data, i + n))) >>

\* re.search(r'Password:\s*(.+)$', data): group 1 of the leftmost match in
\* a one-element sequence, << >> without a match; \s* gives back its last
\* character when nothing else is left for (.+)
password_match(data) ==
    LET n == Len(TxtPassword)
        at == { i \in 1..Len(data) :
                   IsPrefixAt(data, TxtPassword, i) /\ i + n <= Len(data) }
    IN  IF at = { } THEN << >>
        ELSE LET i == CHOOSE j \in at : \A k \in at : j <= k
                 e == SpaceEnd(data, i + n)
             IN  IF e < Len(data) THEN << SubSeq(data, e + 1, Len(data)) >>
                 ELSE << << data[Len(data)] >> >>

\* the chain of update_portal_display with the error test moved first
portal_kind_error_first(data) ==
    IF \/ Contains(lower(data), TxtError)
       \/ Contains(lower(data), TxtFailed) THEN "error"
    ELSE IF Contains(data, TxtClientConnected) THEN "client_connected"
    ELSE IF Contains(data, TxtClientCount) THEN "client_count"
    ELSE IF Contains(data, TxtPassword) THEN "password"
    ELSE IF \/ Contains(data, TxtFormData)
            \/ Contains(lower(data), TxtUsername)
            \/ Contains(lower(data), TxtEmail) THEN "form"
    ELSE IF Contains(data, TxtPortalSaved) THEN "saved"
    ELSE IF Contains(data, TxtStarted) \/ Contains(data, TxtEnabled)
         THEN "status"
    ELSE "none"

\* the branch of the if/elif chain of update_portal_display a line takes
portal_kind(data) ==
    IF Contains(data, TxtClientConnected) THEN "client_connected"
    ELSE IF Contains(data, TxtClientCount) THEN "client_count"
    ELSE IF Contains(data, TxtPassword) THEN "password"
    ELSE IF \/ Contains(data, TxtFormData)
            \/ Contains(lower(data), TxtUsername)
            \/ Contains(lower(data), TxtEmail) THEN "form"
    ELSE IF Contains(data, TxtPortalSaved) THEN "saved"
    ELSE IF \/ Contains(lower(data), TxtError)
            \/ Contains(lower(data), TxtFailed) THEN "error"
    ELSE IF Contains(data, TxtStarted) \/ Contains(data, TxtEnabled)
         THEN "status"
    ELSE "none"

\* JanOS.update_portal_display, the callback of the portal listener, on the
\* record st of submitted_forms, last_submitted_data and client_count
update_portal_display(st, data) ==
    LET kind == portal_kind(data)
    IN  IF kind = "client_connected"
        THEN [st EXCEPT !.client_count = @ + 1]
        ELSE IF kind = "client_count"
        THEN IF client_count_match(data) = << >> THEN st
             ELSE [st EXCEPT !.client_count = client_count_match(data)[1]]
        ELSE IF kind = "password"
        THEN IF password_match(data) = << >>
             THEN [st EXCEPT !.submitted_forms = @ + 1]
             ELSE [st EXCEPT !.submitted_forms = @ + 1,
                             !.last_submitted_data =
                                TxtPasswordSp \o password_match(data)[1]]
        ELSE IF kind = "form"
        THEN [st EXCEPT !.submitted_forms = @ + 1,
                        !.last_submitted_data = data]
        ELSE st

\* the branch of the if/elif chain of update_evil_twin_display a line takes
evil_twin_kind(data) ==
    IF Contains(data, TxtClientConnected) THEN "client_connected"
    ELSE IF \/ Contains(lower(data), TxtTrying)
            \/ Contains(lower(data), TxtAssociation) THEN "connecting"
    ELSE IF \/ Contains(data, TxtPassword)
            \/ Contains(data, TxtHandshakeCaptured) THEN "captured"
    ELSE IF \/ Contains(data, TxtPcap) \/ Contains(data, TxtCap)
            \/ Contains(lower(data), TxtHandshakeSaved) THEN "handshake_file"
    ELSE IF \/ Contains(lower(data), TxtError)
            \/ Contains(lower(data), TxtFailed) THEN "error"
    ELSE IF Contains(data, TxtStarted) \/ Contains(data, TxtBroadcasting)
         THEN "status"
    ELSE "none"

\* JanOS.update_evil_twin_display, the callback of the evil twin listener,
\* on the record st of evil_twin_captured_data and evil_twin_client_count
update_evil_twin_display(st, data) ==
    LET kind == evil_twin_kind(data)
    IN  IF kind = "client_connected"
        THEN [st EXCEPT !.evil_twin_client_count = @ + 1]
        ELSE IF kind = "captured"
        THEN [st EXCEPT !.evil_twin_captured_data = Append(@, data)]
        ELSE st

\* the telemetry of the portal and of the evil twin as records
PortalState ==
    [submitted_forms |-> submitted_forms,
     last_submitted_data |-> last_submitted_data,
     client_count |-> client_count]

EvilTwinState ==
    [evil_twin_captured_data |-> evil_twin_captured_data,
     evil_twin_client_count |-> evil_twin_client_count]

\* lines the portal and the evil twin print while a session monitors them
PortalLines == { TxtInit, TxtClientCountOne }
EvilTwinLines == { TxtInit, TxtAssociation, TxtClientConnected }

\* connections of evil twin clients followed within one session
MaxClients == 1

\* the same loops, readline() returning (a line, an empty read after
\* READ_TIMEOUT, or an exception that is swallowed) and the 0.1 s sleep
listener_readline ==
    /\ pc # "done"
    /\ \E t \in 1..Len(threads) :
          /\ threads[t].st = "reading"
          /\ threads' = [threads EXCEPT ![t].st = "loop"]
          /\ sniffer_packets' \in
                IF threads[t].target = "sniffer"
                THEN { update_sniffer_display(sniffer_packets, r) :
                         r \in SnifferReports }
                ELSE { sniffer_packets }
          /\ \E l \in PortalLines :
                LET st == IF threads[t].target = "portal"
                          THEN update_portal_display(PortalState, l)
                          ELSE PortalState
                IN  /\ submitted_forms' = st.submitted_forms
                    /\ last_submitted_data' = st.last_submitted_data
                    /\ client_count' = st.client_count
          /\ \E l \in EvilTwinLines :
                LET st == IF threads[t].target = "evil_twin"
                          THEN update_evil_twin_display(EvilTwinState, l)
                          ELSE EvilTwinState
                IN  /\ st.evil_twin_client_count <= MaxClients
                    /\ evil_twin_captured_data' = st.evil_twin_captured_data
                    /\ evil_twin_client_count' = st.evil_twin_client_count
    /\ UNCHANGED << pc, exiting, setup_for, flagVars, eventVars,
                    sniffer_thread, portal_thread, evil_twin_thread,
                    closes, sent, netVars, stop_all_streak, streak_stops,
                    testVars >>
    /\ UNCHANGED sendVars

-----------------------------------------------------------------------------
(* Session state.                                                          *)

\* the condition of lines 2152, 2571, 2601, 2612, 2637 and 2675
AnyRunning ==
    \/ attack_running \/ blackout_running \/ sniffer_running
    \/ sae_overflow_running \/ handshake_running \/ portal_running
    \/ evil_twin_running

\* the foreground is inside SerialManager.read_response
CollectPcs == { "scan", "show_results", "show_probes", "html_list",
                "html_select", "portal_drain", "evil_twin_drain" }

\* the foreground is inside a feature's blocking monitoring loop
MonitorPcs == { "sniffer_mon", "portal_mon", "evil_twin_mon" }

\* JanOS.__init__ after SerialManager.setup_serial succeeded, but for the
\* network list
InitFields ==
    /\ pc = "menu"
    /\ exiting = FALSE
    /\ setup_for = "none"
    /\ attack_running = FALSE
    /\ blackout_running = FALSE
    /\ sniffer_running = FALSE
    /\ sae_overflow_running = FALSE
    /\ handshake_running = FALSE
    /\ portal_running = FALSE
    /\ evil_twin_running = FALSE
    /\ sniffer_packets = 0
    /\ stop_sniffer_event = FALSE
    /\ stop_portal_event = FALSE
    /\ stop_evil_twin_event = FALSE
    /\ sniffer_thread = 0
    /\ portal_thread = 0
    /\ evil_twin_thread = 0
    /\ threads = << >>
    /\ closes = 0
    /\ sent = << >>
    /\ selected_networks = << >>
    /\ scan_done = FALSE
    /\ stop_all_streak = 0
    /\ streak_stops = 0
    /\ response = << >>
    /\ probes = << >>
    /\ probe_count = 0
    /\ send_pc = "idle"
    /\ command = << >>
    /\ io = << >>

\* JanOS.__init__, lines 720-725: the telemetry of portal and evil twin
InitTelemetry ==
    /\ submitted_forms = 0
    /\ last_submitted_data = << >>
    /\ client_count = 0
    /\ evil_twin_captured_data = << >>
    /\ evil_twin_client_count = 0

InitSession ==
    /\ InitFields
    /\ InitTelemetry

\* nothing is being read by read_response
NoRead ==
    /\ wire = << >>
    /\ taken = << >>
    /\ elapsed = 0
    /\ last_read = 0

\* NetworkManager.__init__: no network yet
Init ==
    /\ InitSession
    /\ NoRead
    /\ networks = << >>
    /\ network_count = 0
    /\ line = << >>
    /\ phase = "session"

\* an operation chosen at a menu prompt starts: its write log is empty and
\* it ends any streak of stop_all_attacks calls
AtMenu ==
    /\ pc = "menu"
    /\ ~ exiting
    /\ stop_all_streak' = 0
    /\ streak_stops' = 0


-----------------------------------------------------------------------------
(* Scan and selection (scan_menu).                                         *)

\* str(n) for n >= 0
RECURSIVE str(_)
str(n) ==
    IF n < 10 THEN << Digits[n + 1] >>
    ELSE str(n \div 10) \o << Digits[(n % 10) + 1] >>

\* ' '.join(str(i+1) for i in range(n))
RECURSIVE JoinRange(_)
JoinRange(n) ==
    IF n = 0 THEN << >>
    ELSE IF n = 1 THEN str(1)
    ELSE JoinRange(n - 1) \o << " " >> \o str(n)

\* the check of line 927 without the end anchor
ValidSelection_unanchored(sel) ==
    /\ sel # << >>
    /\ IsDigit(sel[1]) \/ IsSpace(sel[1])

\* re.match(r'^[\d\s]+$', selection)
ValidSelection(sel) ==
    /\ sel # << >>
    /\ \A k \in 1..Len(sel) : IsDigit(sel[k]) \/ IsSpace(sel[k])

\* the quoted-CSV line the firmware prints for a list of fields
RECURSIVE QuoteJoinFrom(_, _)
QuoteJoinFrom(fs, k) ==
    IF k > Len(fs) THEN << >>
    ELSE IF k = Len(fs) THEN fs[k]
    ELSE fs[k] \o DELIM \o QuoteJoinFrom(fs, k + 1)

QuoteJoin(fs) == << QUOTE >> \o QuoteJoinFrom(fs, 1) \o << QUOTE >>

\* lines a device prints during a scan, as the scan exchange receives them
NetLine1 ==
    QuoteJoin(<< <<"1">>, <<"H","o","m","e">>, <<"T","P">>, <<"A","A">>,
                 <<"6">>, <<"W","P","A","2">>, <<"-","4","5">>, <<"2","G">> >>)

NetLine2 ==
    QuoteJoin(<< <<"2">>, << >>, <<"T","P">>, <<"B","B">>,
                 <<"1","1">>, <<"O","p","e","n">>, <<"-","7","0">>, <<"5","G">> >>)

ScanInputs ==
    { << >>,
      << NetLine1, NetLine2, SENTINEL >> }

\* do_scan without the clear_networks call
do_scan_keeps_networks ==
    /\ AtMenu
    /\ sent' = send_command(<< >>, "scan_networks", NoArg)
    /\ pc' = "scan"
    /\ UNCHANGED << exiting, setup_for, flagVars, eventVars, threadVars,
                    closes, netVars, testVars >>
    /\ UNCHANGED sniffer_packets
    /\ UNCHANGED << portalVars, evilTwinVars >>
    /\ UNCHANGED sendVars

\* JanOS.do_scan, lines 829-833: clear_networks, then the scan command
do_scan ==
    /\ AtMenu
    /\ networks' = << >>
    /\ network_count' = 0
    /\ scan_done' = FALSE
    /\ sent' = send_command(<< >>, "scan_networks", NoArg)
    /\ pc' = "scan"
    /\ UNCHANGED << exiting, setup_for, flagVars, eventVars, threadVars,
                    closes, selected_networks, testVars >>
    /\ UNCHANGED sniffer_packets
    /\ UNCHANGED << portalVars, evilTwinVars >>
    /\ UNCHANGED sendVars

\* the loop body of do_scan, lines 847-860, over the lines received: every
\* line starting with a quote goes to add_network; the sentinel marks the
\* scan done and ends the exchange, later lines are not looked at
RECURSIVE scan_lines(_, _, _)
scan_lines(nm, ls, k) ==
    IF k > Len(ls) THEN nm @@ [scan_done |-> FALSE]
    ELSE LET after == IF startswith(ls[k], << QUOTE >>)
                      THEN add_network(nm, ls[k]) ELSE nm
         IN  IF Contains(ls[k], SENTINEL)
             THEN after @@ [scan_done |-> TRUE]
             ELSE scan_lines(after, ls, k + 1)

\* JanOS.do_scan, lines 841-881: the collection ends on the sentinel or
\* when SCAN_TIMEOUT has passed
do_scan_collect ==
    /\ pc = "scan"
    /\ ~ exiting
    /\ \E ls \in ScanInputs :
          LET r == scan_lines([networks |-> networks,
                               network_count |-> network_count], ls, 1)
          IN  /\ networks' = r.networks
              /\ network_count' = r.network_count
              /\ scan_done' = r.scan_done
    /\ pc' = "menu"
    /\ UNCHANGED << exiting, setup_for, flagVars, eventVars, threadVars,
                    closes, sent, selected_networks, stop_all_streak,
                    streak_stops, testVars >>
    /\ UNCHANGED sniffer_packets
    /\ UNCHANGED << portalVars, evilTwinVars >>
    /\ UNCHANGED sendVars

\* what the user may type at "Selection: " (already stripped)
SelectionInputs ==
    { << >>, << "a", "l", "l" >>, << "A", "L", "L" >>, << "1", "a" >> }

\* select_networks_menu keeping the text as typed
select_networks_stores_typed(count, stored, selection) ==
    IF count = 0 \/ selection = << >>
       \/ ~ (lower(selection) = << "a", "l", "l" >> \/ ValidSelection(selection))
    THEN [selected_networks |-> stored, sent |-> << >>]
    ELSE [selected_networks |-> selection,
          sent |-> send_command(<< >>, "select_networks", selection)]

\* JanOS.select_networks_menu, lines 885-936, from the text typed to the
\* selection stored and the write log: nothing happens with no network
\* known (885), on an empty text (917) or on a text that fails the check of
\* line 927; 'all' in any case is expanded first (923-924)
select_networks(count, stored, selection) ==
    LET expanded == IF lower(selection) = << "a", "l", "l" >>
                    THEN JoinRange(count)
                    ELSE selection
    IN  IF count = 0 \/ selection = << >> \/ ~ ValidSelection(expanded)
        THEN [selected_networks |-> stored, sent |-> << >>]
        ELSE [selected_networks |-> expanded,
              sent |-> send_command(<< >>, "select_networks", expanded)]

\* JanOS.select_networks_menu
select_networks_menu ==
    /\ AtMenu
    /\ \E selection \in SelectionInputs :
          LET r == select_networks(network_count, selected_networks,
                                   selection)
          IN  /\ selected_networks' = r.selected_networks
              /\ sent' = r.sent
    /\ UNCHANGED << pc, exiting, setup_for, flagVars, eventVars, threadVars,
                    closes, networks, network_count, scan_done, testVars >>
    /\ UNCHANGED sniffer_packets
    /\ UNCHANGED << portalVars, evilTwinVars >>
    /\ UNCHANGED sendVars


-----------------------------------------------------------------------------
(* Sniffer (sniffer_menu).                                                 *)

\* where the foreground goes when a monitoring call's finally block ends:
\* back to the menu, or on to run()'s finally when SystemExit is propagating
AfterMonitor == IF exiting THEN "cleanup" ELSE "menu"

\* JanOS.start_sniffer, lines 962-981: start command, counter reset, flag,
\* event cleared, listener started; the foreground then waits for a key
start_sniffer ==
    /\ AtMenu
    /\ Len(threads) < MaxThreads
    /\ sent' = send_command(<< >>,
                  IF network_count > 0 THEN "start_sniffer_noscan"
                                       ELSE "start_sniffer", NoArg)
    /\ sniffer_running' = TRUE
    /\ sniffer_packets' = 0
    /\ stop_sniffer_event' = FALSE
    /\ threads' = spawn(threads, "sniffer")
    /\ sniffer_thread' = Len(threads) + 1
    /\ pc' = "sniffer_mon"
    /\ UNCHANGED << exiting, setup_for, attack_running, blackout_running,
                    sae_overflow_running, handshake_running, portal_running,
                    evil_twin_running, stop_portal_event,
                    stop_evil_twin_event, portal_thread, evil_twin_thread,
                    closes, netVars, testVars >>
    /\ UNCHANGED << portalVars, evilTwinVars >>
    /\ UNCHANGED sendVars

\* the sniffer stop without the join of its listener
start_sniffer_finally_without_join ==
    /\ pc = "sniffer_mon"
    /\ sent' = send_command(sent, "stop", NoArg)
    /\ sniffer_running' = FALSE
    /\ stop_sniffer_event' = TRUE
    /\ pc' = AfterMonitor
    /\ UNCHANGED << exiting, setup_for, attack_running, blackout_running,
                    sae_overflow_running, handshake_running, portal_running,
                    evil_twin_running, stop_portal_event,
                    stop_evil_twin_event, threadVars, closes, netVars,
                    stop_all_streak, streak_stops, testVars >>
    /\ UNCHANGED sniffer_packets
    /\ UNCHANGED << portalVars, evilTwinVars >>
    /\ UNCHANGED sendVars

\* JanOS.start_sniffer, the finally block of lines 1028-1041, entered on a
\* key press or when an exception passes through
start_sniffer_finally ==
    /\ pc = "sniffer_mon"
    /\ sent' = send_command(sent, "stop", NoArg)
    /\ sniffer_running' = FALSE
    /\ stop_sniffer_event' = TRUE
    /\ threads' \in join(threads, sniffer_thread)
    /\ pc' = AfterMonitor
    /\ UNCHANGED << exiting, setup_for, attack_running, blackout_running,
                    sae_overflow_running, handshake_running, portal_running,
                    evil_twin_running, stop_portal_event,
                    stop_evil_twin_event, sniffer_thread, portal_thread,
                    evil_twin_thread, closes, netVars, stop_all_streak,
                    streak_stops, testVars >>
    /\ UNCHANGED sniffer_packets
    /\ UNCHANGED << portalVars, evilTwinVars >>
    /\ UNCHANGED sendVars

\* lines 1066-1071 of show_sniffer_results and 1156-1161 of
\* show_sniffer_probes: a running sniffer is stopped, without a join
StopSnifferLog == IF sniffer_running
                  THEN send_command(<< >>, "stop", NoArg) ELSE << >>

\* JanOS.show_sniffer_results, lines 1065-1075
show_sniffer_results ==
    /\ AtMenu
    /\ sent' = send_command(StopSnifferLog, "show_sniffer_results", NoArg)
    /\ stop_sniffer_event' = (stop_sniffer_event \/ sniffer_running)
    /\ sniffer_running' = FALSE
    /\ pc' = "show_results"
    /\ UNCHANGED << exiting, setup_for, attack_running, blackout_running,
                    sae_overflow_running, handshake_running, portal_running,
                    evil_twin_running, stop_portal_event,
                    stop_evil_twin_event, threadVars, closes, netVars,
                    testVars >>
    /\ UNCHANGED sniffer_packets
    /\ UNCHANGED << portalVars, evilTwinVars >>
    /\ UNCHANGED sendVars

\* JanOS.show_sniffer_probes, lines 1155-1165
show_sniffer_probes ==
    /\ AtMenu
    /\ sent' = send_command(StopSnifferLog, "show_probes", NoArg)
    /\ stop_sniffer_event' = (stop_sniffer_event \/ sniffer_running)
    /\ sniffer_running' = FALSE
    /\ pc' = "show_probes"
    /\ UNCHANGED << exiting, setup_for, attack_running, blackout_running,
                    sae_overflow_running, handshake_running, portal_running,
                    evil_twin_running, stop_portal_event,
                    stop_evil_twin_event, threadVars, closes, netVars,
                    testVars >>
    /\ UNCHANGED sniffer_packets
    /\ UNCHANGED << portalVars, evilTwinVars >>
    /\ UNCHANGED sendVars

\* lines 1081-1131 and 1171-1261: read_response(timeout=5) returns, the
\* table is printed, the user presses Enter
show_sniffer_collect ==
    /\ pc \in { "show_results", "show_probes" }
    /\ ~ exiting
    /\ pc' = "menu"
    /\ UNCHANGED << exiting, setup_for, flagVars, eventVars, threadVars,
                    closes, sent, netVars, stop_all_streak, streak_stops,
                    testVars >>
    /\ UNCHANGED sniffer_packets
    /\ UNCHANGED << portalVars, evilTwinVars >>
    /\ UNCHANGED sendVars

-----------------------------------------------------------------------------
(* Attacks without a listener (attacks_menu).                              *)

\* JanOS.start_deauth_attack: refused without a selection, else on 'y'
start_deauth_attack ==
    /\ AtMenu
    /\ \E confirm \in BOOLEAN :
          IF selected_networks # << >> /\ confirm
          THEN /\ sent' = send_command(<< >>, "start_deauth", NoArg)
               /\ attack_running' = TRUE
          ELSE /\ sent' = << >>
               /\ UNCHANGED attack_running
    /\ UNCHANGED << pc, exiting, setup_for, blackout_running, sniffer_running,
                    sae_overflow_running, handshake_running, portal_running,
                    evil_twin_running, eventVars, threadVars, closes,
                    netVars, testVars >>
    /\ UNCHANGED sniffer_packets
    /\ UNCHANGED << portalVars, evilTwinVars >>
    /\ UNCHANGED sendVars

\* a blackout start that is refused while a deauth attack is running
start_blackout_attack_refused_under_deauth ==
    /\ AtMenu
    /\ \E confirm \in BOOLEAN :
          IF confirm /\ ~ attack_running
          THEN /\ sent' = send_command(<< >>, "start_blackout", NoArg)
               /\ blackout_running' = TRUE
          ELSE /\ sent' = << >>
               /\ UNCHANGED blackout_running
    /\ UNCHANGED << pc, exiting, setup_for, attack_running, sniffer_running,
                    sae_overflow_running, handshake_running, portal_running,
                    evil_twin_running, eventVars, threadVars, closes,
                    netVars, testVars >>
    /\ UNCHANGED sniffer_packets
    /\ UNCHANGED << portalVars, evilTwinVars >>
    /\ UNCHANGED sendVars

\* JanOS.start_blackout_attack
start_blackout_attack ==
    /\ AtMenu
    /\ \E confirm \in BOOLEAN :
          IF confirm
          THEN /\ sent' = send_command(<< >>, "start_blackout", NoArg)
               /\ blackout_running' = TRUE
          ELSE /\ sent' = << >>
               /\ UNCHANGED blackout_running
    /\ UNCHANGED << pc, exiting, setup_for, attack_running, sniffer_running,
                    sae_overflow_running, handshake_running, portal_running,
                    evil_twin_running, eventVars, threadVars, closes,
                    netVars, testVars >>
    /\ UNCHANGED sniffer_packets
    /\ UNCHANGED << portalVars, evilTwinVars >>
    /\ UNCHANGED sendVars

\* JanOS.start_sae_overflow_attack
start_sae_overflow_attack ==
    /\ AtMenu
    /\ \E confirm \in BOOLEAN :
          IF confirm
          THEN /\ sent' = send_command(<< >>, "sae_overflow", NoArg)
               /\ sae_overflow_running' = TRUE
          ELSE /\ sent' = << >>
               /\ UNCHANGED sae_overflow_running
    /\ UNCHANGED << pc, exiting, setup_for, attack_running, blackout_running,
                    sniffer_running, handshake_running, portal_running,
                    evil_twin_running, eventVars, threadVars, closes,
                    netVars, testVars >>
    /\ UNCHANGED sniffer_packets
    /\ UNCHANGED << portalVars, evilTwinVars >>
    /\ UNCHANGED sendVars

\* JanOS.start_handshake_attack
start_handshake_attack ==
    /\ AtMenu
    /\ \E confirm \in BOOLEAN :
          IF confirm
          THEN /\ sent' = send_command(<< >>, "start_handshake", NoArg)
               /\ handshake_running' = TRUE
          ELSE /\ sent' = << >>
               /\ UNCHANGED handshake_running
    /\ UNCHANGED << pc, exiting, setup_for, attack_running, blackout_running,
                    sniffer_running, sae_overflow_running, portal_running,
                    evil_twin_running, eventVars, threadVars, closes,
                    netVars, testVars >>
    /\ UNCHANGED sniffer_packets
    /\ UNCHANGED << portalVars, evilTwinVars >>
    /\ UNCHANGED sendVars


-----------------------------------------------------------------------------
(* Captive portal and evil twin (portal_menu, evil_twin_menu).             *)

\* lines a device may answer to start_portal / start_evil_twin
AckStarted == << "P", "o", "r", "t", "a", "l", " " >> \o TxtStarted
AckBroadcasting == << "A", "P", " " >> \o TxtBroadcasting
AckError == << "E", "R", "R", "O", "R", ":", " ", "S", "D" >>
AckOther == << "i", "n", "i", "t" >>

DrainInputs ==
    { << >>, << AckOther >>, << AckStarted >>, << AckBroadcasting >>,
      << AckError >>, << AckStarted, AckError >>, << AckOther, AckStarted >> }

\* what the user may type at "Enter network number to target"
TargetInputs == { << >>, << "0" >>, << "1" >>, << "7" >>, << "x" >> }

\* JanOS.select_target_network_menu: the record whose index is the text
\* typed, or None (no network, nothing typed, '0', not an int, no match)
select_target_network_menu(selection) ==
    IF network_count = 0 \/ selection = << >> \/ selection = << "0" >>
       \/ ~ (\A k \in 1..Len(selection) : IsDigit(selection[k]))
    THEN None
    ELSE LET hits == { k \in 1..Len(networks) :
                          networks[k].index = selection }
         IN  IF hits = { } THEN None
             ELSE << networks[CHOOSE k \in hits : \A j \in hits : k <= j] >>

\* JanOS.setup_and_start_portal, lines 1652-1671, up to the list_sd command
\* of get_html_files_from_sd (line 1452)
setup_and_start_portal ==
    /\ AtMenu
    /\ Len(threads) < MaxThreads
    /\ sent' = send_command(<< >>, "list_sd", NoArg)
    /\ setup_for' = "portal"
    /\ pc' = "html_list"
    /\ UNCHANGED << exiting, flagVars, eventVars, threadVars, closes,
                    netVars, testVars >>
    /\ UNCHANGED sniffer_packets
    /\ UNCHANGED << portalVars, evilTwinVars >>
    /\ UNCHANGED sendVars

\* JanOS.setup_and_start_evil_twin, lines 1849-1864: a target network must
\* be chosen first, then list_sd as for the portal
setup_and_start_evil_twin ==
    /\ AtMenu
    /\ Len(threads) < MaxThreads
    /\ \E selection \in TargetInputs :
          IF select_target_network_menu(selection) = None
          THEN /\ sent' = << >>
               /\ UNCHANGED << pc, setup_for >>
          ELSE /\ sent' = send_command(<< >>, "list_sd", NoArg)
               /\ setup_for' = "evil_twin"
               /\ pc' = "html_list"
    /\ UNCHANGED << exiting, flagVars, eventVars, threadVars, closes,
                    netVars, testVars >>
    /\ UNCHANGED sniffer_packets
    /\ UNCHANGED << portalVars, evilTwinVars >>
    /\ UNCHANGED sendVars

\* JanOS.get_html_files_from_sd, lines 1458-1487, then
\* JanOS.select_html_file_menu, lines 1489-1543: with no .html file listed,
\* or none picked, the setup ends; a picked file is sent as select_html
get_html_files_from_sd ==
    /\ pc = "html_list"
    /\ ~ exiting
    /\ \E found \in BOOLEAN, picked \in BOOLEAN :
          IF found /\ picked
          THEN /\ sent' = send_command(sent, "select_html", NoArg)
               /\ pc' = "html_select"
               /\ UNCHANGED setup_for
          ELSE /\ pc' = "menu"
               /\ setup_for' = "none"
               /\ UNCHANGED sent
    /\ UNCHANGED << exiting, flagVars, eventVars, threadVars, closes,
                    netVars, stop_all_streak, streak_stops, testVars >>
    /\ UNCHANGED sniffer_packets
    /\ UNCHANGED << portalVars, evilTwinVars >>
    /\ UNCHANGED sendVars

\* select_html_file_menu, lines 1545-1554, the confirmation of lines
\* 1692-1705 / 1886-1899, and the start command of lines 1727-1733 /
\* 1921-1927
start_monitoring ==
    /\ pc = "html_select"
    /\ ~ exiting
    /\ \E confirm \in BOOLEAN :
          IF confirm
          THEN /\ sent' = send_command(sent,
                             IF setup_for = "portal" THEN "start_portal"
                             ELSE "start_evil_twin", NoArg)
               /\ pc' = IF setup_for = "portal" THEN "portal_drain"
                        ELSE "evil_twin_drain"
               /\ UNCHANGED setup_for
          ELSE /\ pc' = "menu"
               /\ setup_for' = "none"
               /\ UNCHANGED sent
    /\ UNCHANGED << exiting, flagVars, eventVars, threadVars, closes,
                    netVars, stop_all_streak, streak_stops, testVars >>
    /\ UNCHANGED sniffer_packets
    /\ UNCHANGED << portalVars, evilTwinVars >>
    /\ UNCHANGED sendVars

\* the drain loops of lines 1737-1748 and 1931-1942 over the lines read:
\* an error line clears the flag and returns at once, a success line (one
\* of `oks`) sets it
RECURSIVE drain(_, _, _, _)
\* the drain loop going on to the next line after an error line
RECURSIVE drain_goes_on_after_error(_, _, _, _)
drain_goes_on_after_error(ls, k, oks, flag) ==
    IF k > Len(ls) THEN [running |-> flag, returned |-> FALSE]
    ELSE IF Contains(lower(ls[k]), TxtError)
            \/ Contains(lower(ls[k]), TxtFailed)
         THEN drain_goes_on_after_error(ls, k + 1, oks, FALSE)
         ELSE drain_goes_on_after_error(ls, k + 1, oks,
                    IF \E ok \in oks : Contains(lower(ls[k]), ok)
                    THEN TRUE ELSE flag)

drain(ls, k, oks, flag) ==
    IF k > Len(ls) THEN [running |-> flag, returned |-> FALSE]
    ELSE IF Contains(lower(ls[k]), TxtError)
            \/ Contains(lower(ls[k]), TxtFailed)
         THEN [running |-> FALSE, returned |-> TRUE]
         ELSE drain(ls, k + 1, oks,
                    IF \E ok \in oks : Contains(lower(ls[k]), ok)
                    THEN TRUE ELSE flag)

\* JanOS.start_portal_monitoring, lines 1735-1768, when read_response
\* returned the lines ls
start_portal_monitoring_on(ls) ==
    /\ pc = "portal_drain"
    /\ ~ exiting
    /\ LET d == drain(ls, 1, { TxtStarted }, portal_running)
       IN  /\ portal_running' = d.running
           /\ IF d.returned \/ ~ d.running
              THEN /\ pc' = "menu"
                   /\ UNCHANGED << stop_portal_event, portal_thread,
                                   threads, portalVars >>
              ELSE /\ submitted_forms' = 0
                   /\ last_submitted_data' = << >>
                   /\ client_count' = 0
                   /\ stop_portal_event' = FALSE
                   /\ threads' = spawn(threads, "portal")
                   /\ portal_thread' = Len(threads) + 1
                   /\ pc' = "portal_mon"
    /\ setup_for' = "none"
    /\ UNCHANGED << exiting, attack_running, blackout_running,
                    sniffer_running, sae_overflow_running, handshake_running,
                    evil_twin_running, stop_sniffer_event,
                    stop_evil_twin_event, sniffer_thread, evil_twin_thread,
                    closes, sent, netVars, stop_all_streak, streak_stops >>
    /\ UNCHANGED sniffer_packets
    /\ UNCHANGED evilTwinVars
    /\ UNCHANGED sendVars

\* JanOS.start_portal_monitoring in a session
start_portal_monitoring ==
    /\ \E ls \in DrainInputs : start_portal_monitoring_on(ls)
    /\ UNCHANGED testVars

\* the portal stop leaving the portal's running flag as it is
start_portal_monitoring_finally_keeps_flag ==
    /\ pc = "portal_mon"
    /\ sent' = send_command(sent, "stop", NoArg)
    /\ stop_portal_event' = TRUE
    /\ threads' \in join(threads, portal_thread)
    /\ pc' = AfterMonitor
    /\ UNCHANGED << exiting, setup_for, flagVars, stop_sniffer_event,
                    stop_evil_twin_event, sniffer_thread, portal_thread,
                    evil_twin_thread, closes, netVars, stop_all_streak,
                    streak_stops, testVars >>
    /\ UNCHANGED sniffer_packets
    /\ UNCHANGED << portalVars, evilTwinVars >>
    /\ UNCHANGED sendVars

\* JanOS.start_portal_monitoring, the finally block of lines 1817-1830
start_portal_monitoring_finally ==
    /\ pc = "portal_mon"
    /\ sent' = send_command(sent, "stop", NoArg)
    /\ portal_running' = FALSE
    /\ stop_portal_event' = TRUE
    /\ threads' \in join(threads, portal_thread)
    /\ pc' = AfterMonitor
    /\ UNCHANGED << exiting, setup_for, attack_running, blackout_running,
                    sniffer_running, sae_overflow_running, handshake_running,
                    evil_twin_running, stop_sniffer_event,
                    stop_evil_twin_event, sniffer_thread, portal_thread,
                    evil_twin_thread, closes, netVars, stop_all_streak,
                    streak_stops, testVars >>
    /\ UNCHANGED sniffer_packets
    /\ UNCHANGED << portalVars, evilTwinVars >>
    /\ UNCHANGED sendVars

\* start_evil_twin_monitoring without the reset of lines 1951-1952
start_evil_twin_monitoring_on_keeps_counters(ls) ==
    /\ pc = "evil_twin_drain"
    /\ ~ exiting
    /\ LET d == drain(ls, 1, { TxtStarted, TxtBroadcasting },
                      evil_twin_running)
       IN  /\ evil_twin_running' = d.running
           /\ IF d.returned \/ ~ d.running
              THEN /\ pc' = "menu"
                   /\ UNCHANGED << stop_evil_twin_event, evil_twin_thread,
                                   threads, evilTwinVars >>
              ELSE /\ UNCHANGED evilTwinVars
                   /\ stop_evil_twin_event' = FALSE
                   /\ threads' = spawn(threads, "evil_twin")
                   /\ evil_twin_thread' = Len(threads) + 1
                   /\ pc' = "evil_twin_mon"
    /\ setup_for' = "none"
    /\ UNCHANGED << exiting, attack_running, blackout_running,
                    sniffer_running, sae_overflow_running, handshake_running,
                    portal_running, stop_sniffer_event, stop_portal_event,
                    sniffer_thread, portal_thread, closes, sent, netVars,
                    stop_all_streak, streak_stops >>
    /\ UNCHANGED sniffer_packets
    /\ UNCHANGED portalVars
    /\ UNCHANGED sendVars

\* JanOS.start_evil_twin_monitoring, lines 1929-1962, when read_response
\* returned the lines ls
start_evil_twin_monitoring_on(ls) ==
    /\ pc = "evil_twin_drain"
    /\ ~ exiting
    /\ LET d == drain(ls, 1, { TxtStarted, TxtBroadcasting },
                      evil_twin_running)
       IN  /\ evil_twin_running' = d.running
           /\ IF d.returned \/ ~ d.running
              THEN /\ pc' = "menu"
                   /\ UNCHANGED << stop_evil_twin_event, evil_twin_thread,
                                   threads, evilTwinVars >>
              ELSE /\ evil_twin_captured_data' = << >>
                   /\ evil_twin_client_count' = 0
                   /\ stop_evil_twin_event' = FALSE
                   /\ threads' = spawn(threads, "evil_twin")
                   /\ evil_twin_thread' = Len(threads) + 1
                   /\ pc' = "evil_twin_mon"
    /\ setup_for' = "none"
    /\ UNCHANGED << exiting, attack_running, blackout_running,
                    sniffer_running, sae_overflow_running, handshake_running,
                    portal_running, stop_sniffer_event, stop_portal_event,
                    sniffer_thread, portal_thread, closes, sent, netVars,
                    stop_all_streak, streak_stops >>
    /\ UNCHANGED sniffer_packets
    /\ UNCHANGED portalVars
    /\ UNCHANGED sendVars

\* JanOS.start_evil_twin_monitoring in a session
start_evil_twin_monitoring ==
    /\ \E ls \in DrainInputs : start_evil_twin_monitoring_on(ls)
    /\ UNCHANGED testVars

\* JanOS.start_evil_twin_monitoring, the finally block of lines 2013-2026
start_evil_twin_monitoring_finally ==
    /\ pc = "evil_twin_mon"
    /\ sent' = send_command(sent, "stop", NoArg)
    /\ evil_twin_running' = FALSE
    /\ stop_evil_twin_event' = TRUE
    /\ threads' \in join(threads, evil_twin_thread)
    /\ pc' = AfterMonitor
    /\ UNCHANGED << exiting, setup_for, attack_running, blackout_running,
                    sniffer_running, sae_overflow_running, handshake_running,
                    portal_running, stop_sniffer_event, stop_portal_event,
                    sniffer_thread, portal_thread, evil_twin_thread, closes,
                    netVars, stop_all_streak, streak_stops, testVars >>
    /\ UNCHANGED sniffer_packets
    /\ UNCHANGED << portalVars, evilTwinVars >>
    /\ UNCHANGED sendVars


-----------------------------------------------------------------------------
(* Stop all (attacks_menu, option 9).                                      *)

\* one `if <flag>: send_command("stop")` of stop_all_attacks
StopIf(flag, log) == IF flag THEN send_command(log, "stop", NoArg) ELSE log

\* a single stop command for all the features that are running
stop_all_log_one_for_all == StopIf(AnyRunning, << >>)

\* the stop commands of lines 2160-2202, in the order of the source
stop_all_log ==
    StopIf(evil_twin_running,
      StopIf(portal_running,
        StopIf(handshake_running,
          StopIf(sae_overflow_running,
            StopIf(sniffer_running,
              StopIf(blackout_running,
                StopIf(attack_running, << >>)))))))

\* stop_all_flags with the handshake block forgetting to clear its flag
stop_all_flags_keeps_handshake ==
    /\ attack_running' = FALSE
    /\ blackout_running' = FALSE
    /\ sniffer_running' = FALSE
    /\ sae_overflow_running' = FALSE
    /\ UNCHANGED handshake_running
    /\ portal_running' = FALSE
    /\ evil_twin_running' = FALSE

\* the running flags after lines 2160-2202: each `if <flag>:` block ends
\* with <flag> = False
stop_all_flags ==
    /\ attack_running' = FALSE
    /\ blackout_running' = FALSE
    /\ sniffer_running' = FALSE
    /\ sae_overflow_running' = FALSE
    /\ handshake_running' = FALSE
    /\ portal_running' = FALSE
    /\ evil_twin_running' = FALSE

\* the listener teardown of lines 2174-2176, 2192-2194 and 2200-2202: the
\* event of each running listener feature is set and its thread joined
stop_all_listeners ==
    /\ stop_sniffer_event' = (stop_sniffer_event \/ sniffer_running)
    /\ stop_portal_event' = (stop_portal_event \/ portal_running)
    /\ stop_evil_twin_event' = (stop_evil_twin_event \/ evil_twin_running)
    /\ \E t1 \in (IF sniffer_running THEN join(threads, sniffer_thread)
                  ELSE { threads }) :
       \E t2 \in (IF portal_running THEN join(t1, portal_thread)
                  ELSE { t1 }) :
          threads' \in (IF evil_twin_running THEN join(t2, evil_twin_thread)
                        ELSE { t2 })

\* stop_all_attacks without the early return of lines 2152-2156 and with
\* the one generic stop the shutdown paths send
stop_all_attacks_unguarded ==
    /\ pc = "menu"
    /\ ~ exiting
    /\ stop_all_streak' = IF stop_all_streak < 2 THEN stop_all_streak + 1
                          ELSE stop_all_streak
    /\ sent' = send_command(stop_all_log, "stop", NoArg)
    /\ stop_all_flags
    /\ stop_all_listeners
    /\ streak_stops' = streak_stops + Len(sent')
    /\ UNCHANGED << pc, exiting, setup_for, sniffer_thread, portal_thread,
                    evil_twin_thread, closes, netVars, testVars >>
    /\ UNCHANGED sniffer_packets
    /\ UNCHANGED << portalVars, evilTwinVars >>
    /\ UNCHANGED sendVars

\* stop_all_attacks whose nothing-running test leaves out handshake_running
stop_all_attacks_idle_test_misses_handshake ==
    /\ pc = "menu"
    /\ ~ exiting
    /\ stop_all_streak' = IF stop_all_streak < 2 THEN stop_all_streak + 1
                          ELSE stop_all_streak
    /\ IF ~ (\/ attack_running \/ blackout_running \/ sniffer_running
             \/ sae_overflow_running \/ portal_running
             \/ evil_twin_running)
       THEN /\ sent' = << >>
            /\ UNCHANGED << flagVars, eventVars, threads >>
       ELSE /\ sent' = stop_all_log
            /\ stop_all_flags
            /\ stop_all_listeners
    /\ streak_stops' = streak_stops + Len(sent')
    /\ UNCHANGED << pc, exiting, setup_for, sniffer_thread, portal_thread,
                    evil_twin_thread, closes, netVars, testVars >>
    /\ UNCHANGED sniffer_packets
    /\ UNCHANGED << portalVars, evilTwinVars >>
    /\ UNCHANGED sendVars

\* JanOS.stop_all_attacks
stop_all_attacks ==
    /\ pc = "menu"
    /\ ~ exiting
    /\ stop_all_streak' = IF stop_all_streak < 2 THEN stop_all_streak + 1
                          ELSE stop_all_streak
    /\ IF ~ AnyRunning
       THEN /\ sent' = << >>
            /\ UNCHANGED << flagVars, eventVars, threads >>
       ELSE /\ sent' = stop_all_log
            /\ stop_all_flags
            /\ stop_all_listeners
    /\ streak_stops' = streak_stops + Len(sent')
    /\ UNCHANGED << pc, exiting, setup_for, sniffer_thread, portal_thread,
                    evil_twin_thread, closes, netVars, testVars >>
    /\ UNCHANGED sniffer_packets
    /\ UNCHANGED << portalVars, evilTwinVars >>
    /\ UNCHANGED sendVars

-----------------------------------------------------------------------------
(* Shutdown.                                                               *)

\* the one generic stop command of lines 2579, 2602, 2613, 2638 and 2676
StopIfAnyRunning(log) == StopIf(AnyRunning, log)

\* the events set on the shutdown paths, for the listener features whose
\* flag is true
shutdown_events ==
    /\ stop_sniffer_event' = (stop_sniffer_event \/ sniffer_running)
    /\ stop_portal_event' = (stop_portal_event \/ portal_running)
    /\ stop_evil_twin_event' = (stop_evil_twin_event \/ evil_twin_running)

\* JanOS.main_menu, choice '0'/'q', lines 2570-2594: with something running
\* the user is asked; unless the answer is 'n' one stop is sent and the
\* running listeners are cancelled and joined
main_menu_exit_on(stop_confirm) ==
    /\ AtMenu
    /\ IF AnyRunning /\ stop_confirm
       THEN /\ sent' = send_command(<< >>, "stop", NoArg)
            /\ stop_all_listeners
       ELSE /\ sent' = << >>
            /\ UNCHANGED << eventVars, threads >>
    /\ pc' = "cleanup"
    /\ UNCHANGED << exiting, setup_for, flagVars, sniffer_thread,
                    portal_thread, evil_twin_thread, closes, netVars >>
    /\ UNCHANGED sniffer_packets
    /\ UNCHANGED << portalVars, evilTwinVars >>
    /\ UNCHANGED sendVars

\* the exit choice in a session, with either answer to the question
main_menu_exit ==
    /\ \E stop_confirm \in BOOLEAN : main_menu_exit_on(stop_confirm)
    /\ UNCHANGED testVars

\* JanOS.main_menu, `except EOFError`, lines 2610-2620: input() at a menu
\* prompt hits end of input
main_menu_eof ==
    /\ AtMenu
    /\ sent' = StopIfAnyRunning(<< >>)
    /\ shutdown_events
    /\ pc' = "cleanup"
    /\ UNCHANGED << exiting, setup_for, flagVars, threadVars, closes,
                    netVars, testVars >>
    /\ UNCHANGED sniffer_packets
    /\ UNCHANGED << portalVars, evilTwinVars >>
    /\ UNCHANGED sendVars

\* JanOS.cleanup, called from the finally of JanOS.run
cleanup ==
    /\ pc = "cleanup"
    /\ sent' = StopIfAnyRunning(sent)
    /\ stop_all_listeners
    /\ closes' = closes + 1
    /\ pc' = "done"
    /\ UNCHANGED << exiting, setup_for, flagVars, sniffer_thread,
                    portal_thread, evil_twin_thread, netVars,
                    stop_all_streak, streak_stops, testVars >>
    /\ UNCHANGED sniffer_packets
    /\ UNCHANGED << portalVars, evilTwinVars >>
    /\ UNCHANGED sendVars

\* main.signal_handler, lines 2673-2684, run in the main thread wherever it
\* is: one stop if anything runs, events set without a join, close, then
\* sys.exit(0), whose SystemExit passes through the finally block of a
\* monitoring call in progress and through the finally of JanOS.run
signal_handler ==
    /\ pc # "done"
    /\ ~ exiting
    /\ sent' = StopIfAnyRunning(sent)
    /\ shutdown_events
    /\ closes' = closes + 1
    /\ exiting' = TRUE
    /\ pc' = IF pc \in MonitorPcs THEN pc ELSE "cleanup"
    /\ UNCHANGED << setup_for, flagVars, threadVars, netVars,
                    stop_all_streak, streak_stops, testVars >>
    /\ UNCHANGED sniffer_packets
    /\ UNCHANGED << portalVars, evilTwinVars >>
    /\ UNCHANGED sendVars

-----------------------------------------------------------------------------

Next ==
    \/ do_scan
    \/ do_scan_collect
    \/ select_networks_menu
    \/ start_sniffer
    \/ start_sniffer_finally
    \/ show_sniffer_results
    \/ show_sniffer_probes
    \/ show_sniffer_collect
    \/ start_deauth_attack
    \/ start_blackout_attack
    \/ start_sae_overflow_attack
    \/ start_handshake_attack
    \/ setup_and_start_portal
    \/ setup_and_start_evil_twin
    \/ get_html_files_from_sd
    \/ start_monitoring
    \/ start_portal_monitoring
    \/ start_portal_monitoring_finally
    \/ start_evil_twin_monitoring
    \/ start_evil_twin_monitoring_finally
    \/ stop_all_attacks
    \/ main_menu_exit
    \/ main_menu_eof
    \/ cleanup
    \/ signal_handler
    \/ listener_poll
    \/ listener_readline

Spec == Init /\ [][Next]_vars


-----------------------------------------------------------------------------
(* The network-line classifier on its own: one line, one add_network.      *)

\* contents a field of a network line may have
FieldVals ==
    { << >>, << "a" >>, << QUOTE >>, << QUOTE, "a", QUOTE >>,
      << "a", QUOTE, "b" >> }

\* lists of 1 .. MaxFields fields; fields 2 (ssid) and 7 (rssi) vary
FieldLists ==
    { [k \in 1..n |-> IF k = 2 THEN s ELSE IF k = 7 THEN r ELSE str(k)] :
        n \in 1..MaxFields, s \in FieldVals, r \in FieldVals }

RECURSIVE CommaJoinFrom(_, _)
CommaJoinFrom(fs, k) ==
    IF k > Len(fs) THEN << >>
    ELSE IF k = Len(fs) THEN fs[k]
    ELSE fs[k] \o << "," >> \o CommaJoinFrom(fs, k + 1)

\* the lines tried: the quoted-CSV line of a field list, the same line
\* without its opening quote, without its closing quote, and the fields
\* joined by bare commas inside one pair of quotes
TestLines ==
    UNION { { QuoteJoin(fs),
              Tail(QuoteJoin(fs)),
              SubSeq(QuoteJoin(fs), 1, Len(QuoteJoin(fs)) - 1),
              << QUOTE >> \o CommaJoinFrom(fs, 1) \o << QUOTE >> } :
            fs \in FieldLists }

\* the record of NetLine1, as a list that already holds one network
Preloaded == add_network([networks |-> << >>, network_count |-> 0], NetLine1)

\* a NetworkManager with no or one network, and a line to classify
InitNet ==
    /\ InitSession
    /\ NoRead
    /\ \E nm \in { [networks |-> << >>, network_count |-> 0], Preloaded } :
          /\ networks = nm.networks
          /\ network_count = nm.network_count
    /\ line \in TestLines
    /\ phase = "ready"

\* NetworkManager.add_network(line)
add_network_call ==
    /\ phase = "ready"
    /\ LET nm == add_network([networks |-> networks,
                              network_count |-> network_count], line)
       IN  /\ networks' = nm.networks
           /\ network_count' = nm.network_count
    /\ phase' = "added"
    /\ UNCHANGED << pc, exiting, setup_for, flagVars, eventVars, threadVars,
                    closes, sent, selected_networks, scan_done,
                    stop_all_streak, streak_stops, line, probeVars,
                    readVars >>
    /\ UNCHANGED sniffer_packets
    /\ UNCHANGED << portalVars, evilTwinVars >>
    /\ UNCHANGED sendVars

NextNet == add_network_call

SpecNet == InitNet /\ [][NextNet]_vars

-----------------------------------------------------------------------------
(* Properties of stop_all_attacks (specification Spec).                    *)

\* what stop_all_attacks could change besides its own write log
sessionState == << flagVars, eventVars, threadVars, sniffer_packets, closes,
                   netVars >>

\* C1: stop_all_attacks called while none of the seven running flags is
\* true writes no command and leaves the flags, the stop events, the
\* listener threads, the packet counter, the port and the network list as
\* they were.
C1_IdleStopAllIsNoOp ==
    [][(stop_all_attacks /\ ~ AnyRunning)
          => (sent' = << >> /\ UNCHANGED sessionState)]_vars

\* C1, the case: at a menu, after a scan and a sniffer run that counted
\* packets, one stop_all_attacks call has just returned having written
\* nothing
C1_IdleStopAllHappened ==
    /\ pc = "menu"
    /\ stop_all_streak = 1
    /\ streak_stops = 0
    /\ sniffer_packets > 0
    /\ network_count > 0

\* C2: a stop_all_attacks call that directly follows another one writes no
\* command and changes no state, so the stop commands of the two calls
\* together are those of the first.
C2_SecondStopAllIsNoOp ==
    [][(stop_all_attacks /\ stop_all_streak >= 1)
          => /\ sent' = << >>
             /\ streak_stops' = streak_stops
             /\ UNCHANGED sessionState]_vars

\* C2, the case: two stop_all_attacks calls in a row, the first of which
\* stopped at least two running attacks
C2_SecondStopAllHappened ==
    /\ pc = "menu"
    /\ stop_all_streak = 2
    /\ streak_stops >= 2

\* C3: when stop_all_attacks returns, each of the seven running flags is
\* false, and the stop event of the sniffer, the portal and the evil twin
\* is set if that feature was running when the call began.
C3_StopAllClearsEveryFlag ==
    [][stop_all_attacks
          => /\ ~ attack_running'
             /\ ~ blackout_running'
             /\ ~ sniffer_running'
             /\ ~ sae_overflow_running'
             /\ ~ handshake_running'
             /\ ~ portal_running'
             /\ ~ evil_twin_running'
             /\ (sniffer_running => stop_sniffer_event')
             /\ (portal_running => stop_portal_event')
             /\ (evil_twin_running => stop_evil_twin_event')]_vars

\* C3, the case: one stop_all_attacks call has just stopped all four
\* attacks
C3_StopAllStoppedAttacks ==
    /\ pc = "menu"
    /\ stop_all_streak = 1
    /\ streak_stops = 4
    /\ ~ AnyRunning

-----------------------------------------------------------------------------
(* Properties of the listener threads and of shutdown (specification Spec). *)

\* the listener threads that are inside readline() on the port
Readers == { t \in 1..Len(threads) : threads[t].st = "reading" }

\* the listener threads of feature f that have not returned
AliveOf(f) == { t \in AliveListeners : threads[t].target = f }

\* C4: the port never has two readers: no two listener threads are inside
\* readline() at once, and none is while the foreground collects a response
\* with read_response.
C4_SingleReader ==
    /\ Cardinality(Readers) <= 1
    /\ (pc \in CollectPcs => Readers = { })

\* C5: a stop event that is set is not cleared while a listener thread of
\* its feature is still alive.
C5_EventNotClearedWhileListenerAlive ==
    [][/\ (stop_sniffer_event /\ AliveOf("sniffer") # { })
             => stop_sniffer_event'
       /\ (stop_portal_event /\ AliveOf("portal") # { })
             => stop_portal_event'
       /\ (stop_evil_twin_event /\ AliveOf("evil_twin") # { })
             => stop_evil_twin_event']_vars

\* C6: whenever SerialManager.close is called, no listener thread is still
\* alive.
C6_NoListenerAliveAtClose ==
    [][closes' > closes
          => \A t \in 1..Len(threads') : threads'[t].st = "dead"]_vars

\* C7: a session that has ended has called SerialManager.close exactly
\* once.
C7_ClosedExactlyOnce == (pc = "done") => (closes = 1)

\* C8: a signal received while a feature runs tears every running feature
\* down before the port is closed: when the handler has closed the port, no
\* running flag is true and no listener thread is alive.
C8_SignalStopsAllBeforeClose ==
    [][(signal_handler /\ AnyRunning)
          => /\ ~ AnyRunning'
             /\ AliveListeners' = { }]_vars

-----------------------------------------------------------------------------
(* Properties of the network-line classifier (specification SpecNet).      *)

\* the fields of a quoted-CSV line: the text between its opening quote and
\* its closing quote, cut at each delimiter
RawFields(l) ==
    LET body == IF l # << >> /\ l[1] = QUOTE THEN Tail(l) ELSE l
        core == IF body # << >> /\ body[Len(body)] = QUOTE
                THEN SubSeq(body, 1, Len(body) - 1) ELSE body
    IN  split(core, DELIM)

\* C9: add_network appends a record only for a line that starts with a
\* quote and splits on the delimiter into exactly 8 fields; for every other
\* line it leaves the list and the count unchanged.
C9_RecordOnlyForEightFields ==
    [][(phase = "ready" /\ phase' = "added")
          => \/ /\ startswith(line, << QUOTE >>)
                /\ Len(split(line, DELIM)) = 8
             \/ UNCHANGED << networks, network_count >>]_vars

\* C10: the record appended for an accepted line holds fields 1 to 8 of the
\* line in order, an empty ssid replaced by '<hidden>' and no other field
\* changed.
C10_RecordEqualsFields ==
    [][(phase = "ready" /\ phase' = "added"
           /\ Len(networks') = Len(networks) + 1)
          => LET f == RawFields(line)
                 r == networks'[Len(networks')]
             IN  /\ Len(f) >= 8
                 /\ r.index = f[1]
                 /\ r.ssid = (IF f[2] = << >> THEN HIDDEN ELSE f[2])
                 /\ r.vendor = f[3]
                 /\ r.bssid = f[4]
                 /\ r.channel = f[5]
                 /\ r.auth = f[6]
                 /\ r.rssi = f[7]
                 /\ r.band = f[8]]_vars

-----------------------------------------------------------------------------
(* The packet-count classifier on its own (specification SpecPkt).         *)

\* lines given to the classifier, each with the integers it shows in the
\* form "<integer> packet(s)" or "captured: <integer>"
PktCases ==
    {
      [text |-> << "4", "2", " ", "p", "a", "c", "k", "e", "t", "s" >>,
       counts |-> { 42 }],
      [text |-> << "c", "a", "p", "t", "u", "r", "e", "d", ":", " ", "7" >>,
       counts |-> { 7 }],
      [text |-> << "1", " ", "p", "a", "c", "k", "e", "t" >>,
       counts |-> { 1 }],
      [text |-> << "G", "o", "t", " ", "3", " ", "P", "A", "C", "K", "E", "T", "S" >>,
       counts |-> { 3 }],
      [text |-> << "C", "A", "P", "T", "U", "R", "E", "D", ":", " ", "0", "5" >>,
       counts |-> { 5 }],
      [text |-> << "0", " ", "p", "a", "c", "k", "e", "t", "s" >>,
       counts |-> { 0 }],
      [text |-> << "1", "2", " ", "P", "a", "c", "k", "e", "t", "s", " ", "c", "a", "p", "t", "u", "r", "e", "d" >>,
       counts |-> { 12 }],
      [text |-> << " ", "C", "a", "p", "t", "u", "r", "e", "d", ":", " ", " ", "1", "0", "0", " " >>,
       counts |-> { 100 }],
      [text |-> << "s", "e", "e", "n", " ", "8", "	", "p", "a", "c", "k", "e", "t" >>,
       counts |-> { 8 }],
      [text |-> << "c", "a", "p", "t", "u", "r", "e", "d", ":", " ", "7", ",", " ", "4", "2", " ", "p", "a", "c", "k", "e", "t", "s" >>,
       counts |-> { 7, 42 }],
      [text |-> << "h", "e", "l", "l", "o" >>,
       counts |-> { }],
      [text |-> << "4", "2", "p", "a", "c", "k", "e", "t", "s" >>,
       counts |-> { }],
      [text |-> << "c", "a", "p", "t", "u", "r", "e", "d", " ", "7" >>,
       counts |-> { }],
      [text |-> << "p", "a", "c", "k", "e", "t", "s", ":", " ", "9" >>,
       counts |-> { }],
      [text |-> << >>,
       counts |-> { }]
    }

\* the integers a line of PktCases shows
CountsIn(l) == (CHOOSE c \in PktCases : c.text = l).counts

\* a session whose packet counter has its reset value
InitPkt ==
    /\ InitSession
    /\ NoRead
    /\ networks = << >>
    /\ network_count = 0
    /\ line = << >>
    /\ phase = "sniffing"

\* JanOS.update_sniffer_display(data) for the next line
update_sniffer_display_call ==
    /\ phase \in { "sniffing", "classified", "listened" }
    /\ \E c \in PktCases :
          /\ line' = c.text
          /\ sniffer_packets' =
                update_sniffer_display(sniffer_packets, packet_report(c.text))
    /\ phase' = "classified"
    /\ UNCHANGED << pc, exiting, setup_for, flagVars, eventVars, threadVars,
                    closes, sent, netVars, stop_all_streak, streak_stops,
                    probeVars, readVars >>
    /\ UNCHANGED << portalVars, evilTwinVars >>
    /\ UNCHANGED sendVars

\* one turn of the SerialManager.read_sniffer_data loop that reads the next
\* line, with update_sniffer_display as its callback
read_sniffer_data_line ==
    /\ phase \in { "sniffing", "classified", "listened" }
    /\ \E c \in PktCases :
          /\ line' = c.text
          /\ sniffer_packets' =
                update_sniffer_display(sniffer_packets,
                                       read_sniffer_data_report(c.text))
    /\ phase' = "listened"
    /\ UNCHANGED << pc, exiting, setup_for, flagVars, eventVars, threadVars,
                    closes, sent, netVars, stop_all_streak, streak_stops,
                    probeVars, readVars >>
    /\ UNCHANGED << portalVars, evilTwinVars >>
    /\ UNCHANGED sendVars

NextPkt ==
    \/ update_sniffer_display_call
    \/ read_sniffer_data_line

SpecPkt == InitPkt /\ [][NextPkt]_vars

\* C11: each line the packet-count classifier processes either shows a
\* count, which then is the packet counter (overwritten, not added to), or
\* shows none and leaves the counter as it was; the counter starts at 0.
C11_CounterIsLastCount ==
    [][update_sniffer_display_call
          => IF CountsIn(line') = { }
             THEN sniffer_packets' = sniffer_packets
             ELSE sniffer_packets' \in CountsIn(line')]_vars

\* C11, the case: the classifier has just read "captured: 7" and the
\* counter is 7
C11_CapturedOverwrote ==
    /\ phase = "classified"
    /\ line = << "c", "a", "p", "t", "u", "r", "e", "d", ":", " ", "7" >>
    /\ sniffer_packets = 7

\* C12: every line the sniffer listener reads that shows a count, in
\* either form and with 'packet' singular or plural, makes that count the
\* packet counter.
C12_ListenerForwardsEveryCount ==
    [][read_sniffer_data_line
          => (CountsIn(line') # { } => sniffer_packets' \in CountsIn(line'))]_vars

-----------------------------------------------------------------------------
(* The probe table of show_sniffer_probes (specification SpecProbe).       *)

\* the longest response tried
MaxProbeLines == 2

TxtProbe == << "P", "r", "o", "b", "e" >>
TxtTotal == << "T", "o", "t", "a", "l" >>
TxtNA == << "N", "/", "A" >>
TxtUnknown == << "u", "n", "k", "n", "o", "w", "n" >>
TxtSSID == << "S", "S", "I", "D", ":" >>
TxtArrow == << "-", ">" >>
TxtLookingFor == << "l", "o", "o", "k", "i", "n", "g", " ", "f", "o", "r" >>
TxtDb == << "d", "b" >>
TxtDBm == << "d", "B", "m" >>
TxtDots == << ".", ".", "." >>

\* [0-9A-Fa-f]
IsHex(c) ==
    \/ IsDigit(c)
    \/ c \in { "a", "b", "c", "d", "e", "f", "A", "B", "C", "D", "E", "F" }

\* r'([0-9A-Fa-f]{2}[:-]){5}([0-9A-Fa-f]{2})' matches at position i
MacMatchAt(s, i) ==
    /\ i + 16 <= Len(s)
    /\ \A k \in 0..5 : IsHex(s[i + 3 * k]) /\ IsHex(s[i + 3 * k + 1])
    /\ \A k \in 0..4 : s[i + 3 * k + 2] \in { ":", "-" }

\* client_mac: group 0 of the leftmost match, else "N/A"
probe_mac(l) ==
    IF \E i \in 1..Len(l) : MacMatchAt(l, i)
    THEN LET i == CHOOSE i \in 1..Len(l) :
                    /\ MacMatchAt(l, i)
                    /\ \A h \in 1..(i - 1) : ~ MacMatchAt(l, h)
         IN  SubSeq(l, i, i + 16)
    ELSE TxtNA

\* ssid_part: the markers are tried in the order "SSID:", "->",
\* "looking for"; the text after the first occurrence of the marker found
\* is cut at the next "," (SSID:), at the next "(" (->) or not at all
\* (looking for), then stripped
probe_ssid_part(l) ==
    IF Contains(l, TxtSSID)
    THEN strip_ws(split(split(l, TxtSSID)[2], << "," >>)[1])
    ELSE IF Contains(l, TxtArrow)
         THEN strip_ws(split(split(l, TxtArrow)[2], << "(" >>)[1])
         ELSE IF Contains(l, TxtLookingFor)
              THEN strip_ws(split(l, TxtLookingFor)[2])
              ELSE << >>

\* ssid: the part found unless empty, "N/A" or "unknown"; truncated to 27
\* characters and "..." when longer than 30
probe_ssid(l) ==
    LET part == probe_ssid_part(l)
        ssid == IF part # << >> /\ part \notin { TxtNA, TxtUnknown }
                THEN part ELSE HIDDEN
    IN  IF Len(ssid) > 30 THEN SubSeq(ssid, 1, 27) \o TxtDots ELSE ssid

\* r'(-?\d+)\s*dBm?' with re.IGNORECASE matches at position i
RssiMatchAt(s, i) ==
    LET st == IF s[i] = "-" THEN i + 1 ELSE i
        j == DigitsEnd(s, st)
        k == SpaceEnd(s, j + 1)
    IN  j >= st /\ IsPrefixAt(lower(s), TxtDb, k + 1)

\* rssi: group 1 of the leftmost match followed by "dBm", else "N/A"
probe_rssi(l) ==
    IF \E i \in 1..Len(l) : RssiMatchAt(l, i)
    THEN LET i == CHOOSE i \in 1..Len(l) :
                    /\ RssiMatchAt(l, i)
                    /\ \A h \in 1..(i - 1) : ~ RssiMatchAt(l, h)
             st == IF l[i] = "-" THEN i + 1 ELSE i
         IN  SubSeq(l, i, DigitsEnd(l, st)) \o TxtDBm
    ELSE TxtNA

\* r'\[(\d+:\d+:\d+)\]' matches at position i
TimeMatchAt(s, i) ==
    LET a == DigitsEnd(s, i + 1)
        b == DigitsEnd(s, a + 2)
        c == DigitsEnd(s, b + 2)
    IN  /\ s[i] = "["
        /\ a > i /\ a + 1 <= Len(s) /\ s[a + 1] = ":"
        /\ b > a + 1 /\ b + 1 <= Len(s) /\ s[b + 1] = ":"
        /\ c > b + 1 /\ c + 1 <= Len(s) /\ s[c + 1] = "]"

\* timestamp: group 1 of the leftmost match, else ""
probe_timestamp(l) ==
    IF \E i \in 1..Len(l) : TimeMatchAt(l, i)
    THEN LET i == CHOOSE i \in 1..Len(l) :
                    /\ TimeMatchAt(l, i)
                    /\ \A h \in 1..(i - 1) : ~ TimeMatchAt(l, h)
             a == DigitsEnd(l, i + 1)
             b == DigitsEnd(l, a + 2)
         IN  SubSeq(l, i + 1, DigitsEnd(l, b + 2))
    ELSE << >>

\* the row printed for a line, lines 1189-1246
parse_probe(l) ==
    [mac |-> probe_mac(l), ssid |-> probe_ssid(l), rssi |-> probe_rssi(l),
     timestamp |-> probe_timestamp(l)]

\* the header filter keeping every non-empty line
is_probe_row_keeps_headers(l) == l # << >>

\* the header filter of line 1181
is_probe_row(l) ==
    l # << >> /\ ~ startswith(l, TxtProbe) /\ ~ startswith(l, TxtTotal)

\* the rows printed for a response, in the order of its lines
probe_rows(lines) ==
    LET kept == SelectSeq(lines, is_probe_row)
    IN  [k \in 1..Len(kept) |-> parse_probe(kept[k])]

\* response lines, each with what the probe classifier is to make of it:
\* whether it reaches the classifier, and the MAC, SSID and RSSI it shows
ProbeCases ==
    {
      [text |->
          << "C", "l", "i", "e", "n", "t", ":", " ", "A", "A", ":",
             "B", "B", ":", "C", "C", ":", "D", "D", ":", "E", "E",
             ":", "F", "F", ",", " ", "S", "S", "I", "D", ":", " ",
             "H", "o", "m", "e", ",", " ", "R", "S", "S", "I", ":",
             " ", "-", "6", "0" >>,
       reaches |-> TRUE,
       mac |-> << "A", "A", ":", "B", "B", ":", "C", "C", ":", "D", "D", ":", "E", "E", ":", "F", "F" >>,
       ssid |-> << "H", "o", "m", "e" >>,
       rssi |-> << "-", "6", "0", "d", "B", "m" >>],
      [text |->
          << "A", "A", ":", "B", "B", ":", "C", "C", ":", "D", "D",
             ":", "E", "E", ":", "F", "F", " ", "-", ">", " ", "H",
             "o", "m", "e", " ", "(", "-", "5", "5", "d", "B", "m",
             ")" >>,
       reaches |-> TRUE,
       mac |-> << "A", "A", ":", "B", "B", ":", "C", "C", ":", "D", "D", ":", "E", "E", ":", "F", "F" >>,
       ssid |-> << "H", "o", "m", "e" >>,
       rssi |-> << "-", "5", "5", "d", "B", "m" >>],
      [text |->
          << "P", "r", "o", "b", "e", ":", " ", "A", "A", ":", "B",
             "B", ":", "C", "C", ":", "D", "D", ":", "E", "E", ":",
             "F", "F", " ", "l", "o", "o", "k", "i", "n", "g", " ",
             "f", "o", "r", " ", "H", "o", "m", "e" >>,
       reaches |-> FALSE,
       mac |-> << >>,
       ssid |-> << >>,
       rssi |-> << >>],
      [text |->
          << "T", "o", "t", "a", "l", " ", "p", "r", "o", "b", "e",
             "s", ":", " ", "2" >>,
       reaches |-> FALSE,
       mac |-> << >>,
       ssid |-> << >>,
       rssi |-> << >>],
      [text |->
          << "h", "e", "l", "l", "o" >>,
       reaches |-> TRUE,
       mac |-> << "N", "/", "A" >>,
       ssid |-> << "<", "h", "i", "d", "d", "e", "n", ">" >>,
       rssi |-> << "N", "/", "A" >>],
      [text |->
          << "1", "1", ":", "2", "2", ":", "3", "3", ":", "4", "4",
             ":", "5", "5", ":", "6", "6", " ", "-", ">", " ", "C",
             "a", "f", "e", ",", " ", "S", "S", "I", "D", ":", " ",
             "O", "t", "h", "e", "r" >>,
       reaches |-> TRUE,
       mac |-> << "1", "1", ":", "2", "2", ":", "3", "3", ":", "4", "4", ":", "5", "5", ":", "6", "6" >>,
       ssid |-> << "C", "a", "f", "e" >>,
       rssi |-> << "N", "/", "A" >>],
      [text |->
          << "a", "a", "-", "b", "b", "-", "c", "c", "-", "d", "d",
             "-", "e", "e", "-", "f", "f", " ", "l", "o", "o", "k",
             "i", "n", "g", " ", "f", "o", "r", " ", "L", "a", "b",
             " ", "(", "c", "h", " ", "6", ")" >>,
       reaches |-> TRUE,
       mac |-> << "a", "a", "-", "b", "b", "-", "c", "c", "-", "d", "d", "-", "e", "e", "-", "f", "f" >>,
       ssid |-> << "L", "a", "b" >>,
       rssi |-> << "N", "/", "A" >>],
      [text |->
          << "S", "S", "I", "D", ":", " ", "N", "e", "t", " ", "(",
             "5", "G", "H", "z", ")", ",", " ", "x" >>,
       reaches |-> TRUE,
       mac |-> << "N", "/", "A" >>,
       ssid |-> << "N", "e", "t" >>,
       rssi |-> << "N", "/", "A" >>],
      [text |->
          << "[", "1", "2", ":", "0", "0", ":", "0", "1", "]", " ",
             "1", "1", ":", "2", "2", ":", "3", "3", ":", "4", "4",
             ":", "5", "5", ":", "6", "6", " ", "-", ">", " ", "C",
             "a", "f", "e", " ", "(", "-", "7", "0", " ", "d", "B",
             "m", ")" >>,
       reaches |-> TRUE,
       mac |-> << "1", "1", ":", "2", "2", ":", "3", "3", ":", "4", "4", ":", "5", "5", ":", "6", "6" >>,
       ssid |-> << "C", "a", "f", "e" >>,
       rssi |-> << "-", "7", "0", "d", "B", "m" >>],
      [text |->
          << "x", ",", " ", "R", "S", "S", "I", ":", " ", "-", "4",
             "5", " ", "d", "B" >>,
       reaches |-> TRUE,
       mac |-> << "N", "/", "A" >>,
       ssid |-> << "<", "h", "i", "d", "d", "e", "n", ">" >>,
       rssi |-> << "-", "4", "5", "d", "B", "m" >>]
    }

\* responses of up to MaxProbeLines lines
ProbeResponses ==
    UNION { [1..n -> { c.text : c \in ProbeCases }] : n \in 0..MaxProbeLines }

\* a session that has not shown a probe table yet
InitProbe ==
    /\ InitSession
    /\ NoRead
    /\ networks = << >>
    /\ network_count = 0
    /\ line = << >>
    /\ phase = "probing"

\* JanOS.show_sniffer_probes, lines 1171-1249: the table printed for the
\* lines read_response returned
show_sniffer_probes_table ==
    /\ phase = "probing"
    /\ \E r \in ProbeResponses :
          /\ response' = r
          /\ probes' = probe_rows(r)
          /\ probe_count' = Len(probe_rows(r))
    /\ phase' = "probed"
    /\ UNCHANGED << pc, exiting, setup_for, flagVars, eventVars, threadVars,
                    sniffer_packets, portalVars, evilTwinVars,
                    closes, sent, netVars, stop_all_streak,
                    streak_stops, line, readVars >>
    /\ UNCHANGED sendVars

NextProbe == show_sniffer_probes_table

SpecProbe == InitProbe /\ [][NextProbe]_vars

\* what ProbeCases says of a line, and of the lines of a response that
\* reach the classifier
ProbeCaseOf(l) == CHOOSE c \in ProbeCases : c.text = l
Reaches(l) == ProbeCaseOf(l).reaches
ReachingCases(r) ==
    LET kept == SelectSeq(r, Reaches)
    IN  [k \in 1..Len(kept) |-> ProbeCaseOf(kept[k])]

\* the row of a line in which nothing is found
PlaceholderRow ==
    [mac |-> TxtNA, ssid |-> HIDDEN, rssi |-> TxtNA, timestamp |-> << >>]

TxtHello == << "h", "e", "l", "l", "o" >>

\* C13: each row of the probe table shows the MAC of its line and the
\* '-digits' RSSI of its line followed by 'dBm', whether or not the line
\* writes 'dBm' after the number ('... RSSI: -60' gives '-60dBm').
C13_RssiWithOrWithoutUnit ==
    [][show_sniffer_probes_table
          => LET e == ReachingCases(response')
             IN  /\ Len(probes') = Len(e)
                 /\ \A k \in 1..Len(e) :
                       /\ probes'[k].mac = e[k].mac
                       /\ probes'[k].rssi = e[k].rssi]_vars

C15_SsidAfterFirstMarker ==
    [][show_sniffer_probes_table
          => LET e == ReachingCases(response')
             IN  /\ Len(probes') = Len(e)
                 /\ \A k \in 1..Len(e) : probes'[k].ssid = e[k].ssid]_vars

-----------------------------------------------------------------------------
(* SerialManager.read_response on its own (specification SpecRead).        *)

\* the timeout of read_response, in sleeps of 0.1 s
TimeoutTicks == 3

\* the most lines the device sends during one read_response
MaxWire == 2

\* lines as readline() decodes them, before strip(): text, text between
\* blanks, an empty line, a line of white space
RawLines == { << "a" >>, << " ", "b", " " >>, << >>, << "\t" >> }

\* what the device sends during the call
Wires == UNION { [1..n -> RawLines] : n \in 0..MaxWire }

\* read_response with an empty line appended like any other
collect_keeps_empty(lines, raw) == Append(lines, strip_ws(raw))

\* lines 517-519: the line read is stripped and appended unless empty
collect(lines, raw) ==
    LET l == strip_ws(raw)
    IN  IF l # << >> THEN Append(lines, l) ELSE lines

\* read_response is called: lines = [], start_time = time.time()
InitRead ==
    /\ InitSession
    /\ networks = << >>
    /\ network_count = 0
    /\ line = << >>
    /\ phase = "collecting"
    /\ wire \in Wires
    /\ taken = << >>
    /\ elapsed = 0
    /\ last_read = 0

\* one turn of the loop with in_waiting true: readline() returns the next
\* line at once or a sleep later, or raises and the turn is abandoned
read_response_readline ==
    /\ phase = "collecting"
    /\ elapsed < TimeoutTicks
    /\ wire # << >>
    /\ \E raised \in BOOLEAN, slow \in BOOLEAN :
          /\ elapsed' = IF slow \/ raised THEN elapsed + 1 ELSE elapsed
          /\ IF raised
             THEN UNCHANGED << wire, taken, response, last_read >>
             ELSE /\ wire' = Tail(wire)
                  /\ taken' = Append(taken, Head(wire))
                  /\ response' = collect(response, Head(wire))
                  /\ last_read' = elapsed'
    /\ UNCHANGED << pc, exiting, setup_for, flagVars, eventVars, threadVars,
                    sniffer_packets, portalVars, evilTwinVars,
                    closes, sent, netVars, stop_all_streak,
                    streak_stops, line, phase, probes, probe_count >>
    /\ UNCHANGED sendVars

\* one turn of the loop with in_waiting false: time.sleep(0.1)
read_response_sleep ==
    /\ phase = "collecting"
    /\ elapsed < TimeoutTicks
    /\ elapsed' = elapsed + 1
    /\ UNCHANGED << pc, exiting, setup_for, flagVars, eventVars, threadVars,
                    sniffer_packets, portalVars, evilTwinVars,
                    closes, sent, netVars, stop_all_streak,
                    streak_stops, line, phase, probeVars, wire, taken,
                    last_read >>
    /\ UNCHANGED sendVars

\* the loop condition of line 514 fails: return lines
read_response_return ==
    /\ phase = "collecting"
    /\ ~ (elapsed < TimeoutTicks)
    /\ phase' = "returned"
    /\ UNCHANGED << pc, exiting, setup_for, flagVars, eventVars, threadVars,
                    sniffer_packets, portalVars, evilTwinVars,
                    closes, sent, netVars, stop_all_streak,
                    streak_stops, line, probeVars, readVars >>
    /\ UNCHANGED sendVars

NextRead ==
    \/ read_response_readline
    \/ read_response_sleep
    \/ read_response_return

SpecRead == InitRead /\ [][NextRead]_vars

\* the stripped non-empty lines of a list of lines, in order
RECURSIVE NonEmptyLines(_)
NonEmptyLines(ls) ==
    IF ls = << >> THEN << >>
    ELSE (IF strip_ws(Head(ls)) = << >> THEN << >>
          ELSE << strip_ws(Head(ls)) >>) \o NonEmptyLines(Tail(ls))

\* C16: the list read_response returns is made of the non-empty lines it
\* read, each once and in the order read; with nothing read it is empty.
C16_ReturnsNonEmptyLinesInOrder ==
    (phase = "returned") => (response = NonEmptyLines(taken))

\* C16, the case: read_response has returned after reading two lines, one
\* of them blank, and its list holds the other
C16_ReturnedAfterBlank ==
    /\ phase = "returned"
    /\ Len(taken) = 2
    /\ Len(response) = 1

\* C17: when the device has sent all its lines before the timeout,
\* read_response returns them before the timeout has elapsed.
C17_ReturnsBeforeTimeout ==
    (phase = "returned" /\ wire = << >> /\ taken # << >>
        /\ last_read < TimeoutTicks)
       => (response = NonEmptyLines(taken) /\ elapsed < TimeoutTicks)

-----------------------------------------------------------------------------
(* The scan exchange of do_scan, round by round (specification SpecScan).  *)

\* the rounds of read_response(timeout=1) that fit in SCAN_TIMEOUT
ScanRounds == 2

\* the most lines the device sends during one scan
MaxScanLines == 3

\* a network line of 7 fields and one of 9
NetLine7 == QuoteJoin([k \in 1..7 |-> str(k)])
NetLine9 == QuoteJoin([k \in 1..9 |-> str(k)])

\* the record of a well-formed line of 8 fields
RecordOf(f) ==
    [index |-> f[1], ssid |-> IF f[2] = << >> THEN HIDDEN ELSE f[2],
     vendor |-> f[3], bssid |-> f[4], channel |-> f[5], auth |-> f[6],
     rssi |-> f[7], band |-> f[8]]

\* lines the device may send during a scan, each with the records it
\* stands for (one if it is a well-formed network line, none otherwise) and
\* whether it is the scan-complete line
ScanCases ==
    { [text |-> NetLine1, sentinel |-> FALSE,
       records |-> << RecordOf(<< <<"1">>, <<"H","o","m","e">>, <<"T","P">>,
                                  <<"A","A">>, <<"6">>, <<"W","P","A","2">>,
                                  <<"-","4","5">>, <<"2","G">> >>) >>],
      [text |-> NetLine2, sentinel |-> FALSE,
       records |-> << RecordOf(<< <<"2">>, << >>, <<"T","P">>, <<"B","B">>,
                                  <<"1","1">>, <<"O","p","e","n">>,
                                  <<"-","7","0">>, <<"5","G">> >>) >>],
      [text |-> NetLine7, sentinel |-> FALSE, records |-> << >>],
      [text |-> NetLine9, sentinel |-> FALSE, records |-> << >>],
      [text |-> TxtHello, sentinel |-> FALSE, records |-> << >>],
      [text |-> SENTINEL, sentinel |-> TRUE, records |-> << >>] }

\* what the device sends during one scan
ScanWires ==
    UNION { [1..n -> { c.text : c \in ScanCases }] : n \in 0..MaxScanLines }

\* the list read_response returns for the lines read
RECURSIVE collect_all(_, _)
collect_all(lines, raws) ==
    IF raws = << >> THEN lines
    ELSE collect_all(collect(lines, Head(raws)), Tail(raws))

\* a session at the main menu that has not scanned yet
InitScan ==
    /\ InitSession
    /\ NoRead
    /\ networks = << >>
    /\ network_count = 0
    /\ line = << >>
    /\ phase = "idle"

\* the device answers the scan_networks command of line 833; the loop of
\* line 843 starts with start_time = time.time()
scan_device_sends ==
    /\ pc = "scan"
    /\ phase \in { "idle", "scanned" }
    /\ wire' \in ScanWires
    /\ taken' = << >>
    /\ elapsed' = 0
    /\ phase' = "scanning"
    /\ UNCHANGED << pc, exiting, setup_for, flagVars, eventVars, threadVars,
                    sniffer_packets, portalVars, evilTwinVars,
                    closes, sent, netVars, stop_all_streak,
                    streak_stops, line, probeVars, last_read >>
    /\ UNCHANGED sendVars

\* do_scan_round going on to the next round on the sentinel
do_scan_round_waits ==
    /\ pc = "scan"
    /\ phase = "scanning"
    /\ elapsed < ScanRounds
    /\ \E n \in 0..Len(wire) :
          LET r == scan_lines([networks |-> networks,
                               network_count |-> network_count],
                              collect_all(<< >>, SubSeq(wire, 1, n)), 1)
          IN  /\ wire' = SubSeq(wire, n + 1, Len(wire))
              /\ taken' = taken \o SubSeq(wire, 1, n)
              /\ networks' = r.networks
              /\ network_count' = r.network_count
              /\ scan_done' = r.scan_done
              /\ elapsed' = elapsed + 1
              /\ UNCHANGED << pc, phase >>
    /\ UNCHANGED << exiting, setup_for, flagVars, eventVars, threadVars,
                    sniffer_packets, portalVars, evilTwinVars,
                    closes, sent, selected_networks,
                    stop_all_streak, streak_stops, line, probeVars,
                    last_read >>
    /\ UNCHANGED sendVars

\* one turn of the loop of lines 843-866: read_response(timeout=1) returns
\* the lines that arrived during its second; they are handled in order up
\* to the sentinel, on which do_scan returns
do_scan_round ==
    /\ pc = "scan"
    /\ phase = "scanning"
    /\ elapsed < ScanRounds
    /\ \E n \in 0..Len(wire) :
          LET r == scan_lines([networks |-> networks,
                               network_count |-> network_count],
                              collect_all(<< >>, SubSeq(wire, 1, n)), 1)
          IN  /\ wire' = SubSeq(wire, n + 1, Len(wire))
              /\ taken' = taken \o SubSeq(wire, 1, n)
              /\ networks' = r.networks
              /\ network_count' = r.network_count
              /\ scan_done' = r.scan_done
              /\ IF r.scan_done
                 THEN pc' = "menu" /\ phase' = "scanned" /\ UNCHANGED elapsed
                 ELSE elapsed' = elapsed + 1 /\ UNCHANGED << pc, phase >>
    /\ UNCHANGED << exiting, setup_for, flagVars, eventVars, threadVars,
                    sniffer_packets, portalVars, evilTwinVars,
                    closes, sent, selected_networks,
                    stop_all_streak, streak_stops, line, probeVars,
                    last_read >>
    /\ UNCHANGED sendVars

\* the loop condition of line 843 fails: "Timeout reached"
do_scan_timeout ==
    /\ pc = "scan"
    /\ phase = "scanning"
    /\ ~ (elapsed < ScanRounds)
    /\ pc' = "menu"
    /\ phase' = "scanned"
    /\ UNCHANGED << exiting, setup_for, flagVars, eventVars, threadVars,
                    sniffer_packets, portalVars, evilTwinVars,
                    closes, sent, netVars, stop_all_streak,
                    streak_stops, line, probeVars, readVars >>
    /\ UNCHANGED sendVars

NextScan ==
    \/ do_scan
    \/ scan_device_sends
    \/ do_scan_round
    \/ do_scan_timeout

SpecScan == InitScan /\ [][NextScan]_vars

\* what ScanCases says of a line
ScanCaseOf(l) == CHOOSE c \in ScanCases : c.text = l

\* a scan-complete line is among the lines
SentinelIn(ls) == \E k \in 1..Len(ls) : ScanCaseOf(ls[k]).sentinel

\* the records of the well-formed network lines that come before the first
\* scan-complete line, in order
RECURSIVE RecordsBeforeSentinel(_)
RecordsBeforeSentinel(ls) ==
    IF ls = << >> \/ ScanCaseOf(Head(ls)).sentinel THEN << >>
    ELSE ScanCaseOf(Head(ls)).records \o RecordsBeforeSentinel(Tail(ls))

\* C18: while the scan loop is still collecting, no scan-complete line has
\* been read; when do_scan has returned, the scan is marked done if and
\* only if a scan-complete line was read during it, and then it returned
\* before the scan timeout had run out.
C18_EndsOnSentinel ==
    /\ (pc = "scan" /\ phase = "scanning")
          => (~ SentinelIn(taken) /\ ~ scan_done)
    /\ (pc = "menu" /\ phase = "scanned")
          => /\ scan_done <=> SentinelIn(taken)
             /\ scan_done => elapsed < ScanRounds

\* C18, the case: a scan has ended on the scan-complete line in its first
\* round, with a line still to come from the device
C18_EndedEarly ==
    /\ pc = "menu"
    /\ phase = "scanned"
    /\ scan_done
    /\ elapsed = 0
    /\ wire # << >>

\* C19: when a scan has ended on the scan-complete line, the network list
\* holds one record per well-formed network line read before that line, in
\* the order read, and nothing else.
C19_OneRecordPerLineBeforeSentinel ==
    (pc = "menu" /\ phase = "scanned" /\ scan_done)
       => /\ networks = RecordsBeforeSentinel(taken)
          /\ network_count = Len(RecordsBeforeSentinel(taken))

\* C20: do_scan empties the network list and resets the count, and every
\* record in the list was parsed from a line of the most recent scan.
C20_OnlyLatestScan ==
    /\ [][do_scan => (networks' = << >> /\ network_count' = 0)]_vars
    /\ [](\A k \in 1..Len(networks) :
             \E j \in 1..Len(taken) :
                parse_network_line(strip_ws(taken[j])) = << networks[k] >>)

\* C20, the case: a new scan has just begun after a scan that had read a
\* network line, and the list is empty
C20_ClearedAfterEarlierScan ==
    /\ pc = "scan"
    /\ phase = "scanned"
    /\ networks = << >>
    /\ network_count = 0
    /\ \E j \in 1..Len(taken) : parse_network_line(taken[j]) # None

-----------------------------------------------------------------------------
(* Scans followed by selections (specification SpecSel).                   *)

\* the most networks one scan finds
MaxNets == 5

\* the line the device prints for the network it numbers k
NetRow(k) ==
    QuoteJoin(<< str(k), <<"N">>, <<"V">>, <<"B">>, <<"1">>, <<"A">>,
                 <<"-","5">>, <<"2">> >>)

\* what do_scan may read during one scan: the rows of the networks found,
\* then the scan-complete line unless the scan times out
ScanLists ==
    UNION { { [k \in 1..n |-> NetRow(k)],
              [k \in 1..n |-> NetRow(k)] \o << SENTINEL >> } :
            n \in 0..MaxNets }

\* texts typed at "Selection: " (already stripped)
TypedSelections ==
    { << >>,
      << "a", "l", "l" >>, << "A", "L", "L" >>, << "A", "l", "l" >>,
      << "1" >>, << "2", " ", "1" >>, << "9" >>, << "1", " ", " ", "3" >>,
      << "1", "a" >>, << "a" >>, << "1", " ", "x" >>,
      << "a", "l", "l", "l" >>, << "2", " ", "a", "l", "l" >> }

\* a session at the main menu that has not scanned yet
InitSel ==
    /\ InitSession
    /\ NoRead
    /\ networks = << >>
    /\ network_count = 0
    /\ line = << >>
    /\ phase = "selecting"

\* JanOS.do_scan, lines 841-866, over the lines of one scan
do_scan_lists ==
    /\ pc = "scan"
    /\ \E ls \in ScanLists :
          LET r == scan_lines([networks |-> networks,
                               network_count |-> network_count], ls, 1)
          IN  /\ networks' = r.networks
              /\ network_count' = r.network_count
              /\ scan_done' = r.scan_done
    /\ pc' = "menu"
    /\ UNCHANGED << exiting, setup_for, flagVars, eventVars, threadVars,
                    sniffer_packets, portalVars, evilTwinVars,
                    closes, sent, selected_networks,
                    stop_all_streak, streak_stops, testVars >>
    /\ UNCHANGED sendVars

\* JanOS.select_networks_menu on a text typed, which line keeps
select_networks_menu_typed ==
    /\ AtMenu
    /\ \E selection \in TypedSelections :
          LET r == select_networks(network_count, selected_networks,
                                   selection)
          IN  /\ selected_networks' = r.selected_networks
              /\ sent' = r.sent
              /\ line' = selection
    /\ UNCHANGED << pc, exiting, setup_for, flagVars, eventVars, threadVars,
                    sniffer_packets, portalVars, evilTwinVars,
                    closes, networks, network_count,
                    scan_done, phase, probeVars, readVars >>
    /\ UNCHANGED sendVars

NextSel ==
    \/ do_scan
    \/ do_scan_lists
    \/ select_networks_menu_typed

SpecSel == InitSel /\ [][NextSel]_vars

\* the numbers a selection names
Tokens(sel) ==
    { t \in { split(sel, << " " >>)[k] :
                 k \in 1..Len(split(sel, << " " >>)) } : t # << >> }

\* the text has a letter
HasLetter(sel) ==
    \E k \in 1..Len(sel) : \E u \in 1..Len(UPPER) :
       sel[k] = UPPER[u] \/ sel[k] = LOWER[u]

TxtAll == << "a", "l", "l" >>

\* C21: at the menu, every number of the stored selection is the index of
\* a network in the list of the most recent scan.
C21_SelectionRefersToCurrentList ==
    pc = "menu"
       => \A t \in Tokens(selected_networks) :
             \E k \in 1..Len(networks) : networks[k].index = t

\* C22: with N > 0 networks known, typing 'all' stores the numbers 1 to N
\* separated by single spaces ('1 2 3 4 5' for 5 networks), and one
\* select_networks command carrying that string is written.
C22_AllExpandsToOneToN ==
    [][(select_networks_menu_typed /\ lower(line') = TxtAll
           /\ network_count > 0)
          => /\ split(selected_networks', << " " >>)
                   = [k \in 1..network_count |-> str(k)]
             /\ (network_count = 5
                    => selected_networks'
                          = << "1", " ", "2", " ", "3", " ", "4", " ", "5" >>)
             /\ sent' = << [cmd |-> "select_networks",
                            arg |-> selected_networks', ok |-> TRUE] >>]_vars

\* C22, the case: 'All' was typed with 5 networks known
C22_AllOfFiveSelected ==
    /\ pc = "menu"
    /\ network_count = 5
    /\ line = << "A", "l", "l" >>
    /\ selected_networks = << "1", " ", "2", " ", "3", " ", "4", " ", "5" >>
    /\ Len(sent) = 1
    /\ sent[1].cmd = "select_networks"
    /\ sent[1].arg = selected_networks

\* C23: a text typed that has a letter and is not the keyword 'all' leaves
\* the stored selection as it was and writes no command.
C23_LetterIsRejected ==
    [][(select_networks_menu_typed /\ HasLetter(line')
           /\ lower(line') # TxtAll)
          => (selected_networks' = selected_networks /\ sent' = << >>)]_vars

\* C23, the case: '1a' was typed with networks known and a selection
\* stored, and the selection is still there
C23_RejectedWithSelectionKept ==
    /\ pc = "menu"
    /\ network_count > 0
    /\ line = << "1", "a" >>
    /\ selected_networks = << "2", " ", "1" >>
    /\ sent = << >>

-----------------------------------------------------------------------------
(* The portal and evil twin classifiers on single lines (specification     *)
(* SpecPortal).                                                            *)

\* lines a listener may hand to its callback, each with the event kind the
\* priority order client-connected, client-count-update, password-
\* submission, generic-form-submission, saved notice, error/failure,
\* success gives it, the integer after 'Client count = ' if there is one,
\* and the text after 'Password:' of a password submission
PortalCases ==
    { [text |-> << "C", "l", "i", "e", "n", "t", " ", "c", "o", "n", "n", "e", "c", "t", "e", "d" >>,
       kind |-> "connected", count |-> << >>, secret |-> << >>],
      [text |-> << "C", "l", "i", "e", "n", "t", " ", "c", "o", "n", "n", "e", "c", "t", "e", "d", ",", " ", "P", "a", "s", "s", "w", "o", "r", "d", ":", " ", "x" >>,
       kind |-> "connected", count |-> << >>, secret |-> << >>],
      [text |-> << "C", "l", "i", "e", "n", "t", " ", "c", "o", "u", "n", "t", " ", "=", " ", "3" >>,
       kind |-> "count", count |-> << 3 >>, secret |-> << >>],
      [text |-> << "C", "l", "i", "e", "n", "t", " ", "c", "o", "u", "n", "t", " ", "=", " ", "1", "2", " ", "e", "r", "r", "o", "r" >>,
       kind |-> "count", count |-> << 12 >>, secret |-> << >>],
      [text |-> << "C", "l", "i", "e", "n", "t", " ", "c", "o", "u", "n", "t", ":", " ", "3" >>,
       kind |-> "count", count |-> << >>, secret |-> << >>],
      [text |-> << "C", "l", "i", "e", "n", "t", " ", "c", "o", "u", "n", "t", " ", "=", " ", "x", " ", "P", "a", "s", "s", "w", "o", "r", "d", ":", " ", "y" >>,
       kind |-> "count", count |-> << >>, secret |-> << >>],
      [text |-> << "P", "a", "s", "s", "w", "o", "r", "d", ":", " ", "h", "u", "n", "t", "e", "r", "2" >>,
       kind |-> "password", count |-> << >>, secret |-> << << "h", "u", "n", "t", "e", "r", "2" >> >>],
      [text |-> << "e", "r", "r", "o", "r", " ", "P", "a", "s", "s", "w", "o", "r", "d", ":", " ", "p" >>,
       kind |-> "password", count |-> << >>, secret |-> << << "p" >> >>],
      [text |-> << "P", "a", "s", "s", "w", "o", "r", "d", ":" >>,
       kind |-> "password", count |-> << >>, secret |-> << << >> >>],
      [text |-> << "F", "o", "r", "m", " ", "d", "a", "t", "a", ":", " ", "a", "=", "b" >>,
       kind |-> "form", count |-> << >>, secret |-> << >>],
      [text |-> << "U", "s", "e", "r", "n", "a", "m", "e", ":", " ", "b", "o", "b" >>,
       kind |-> "form", count |-> << >>, secret |-> << >>],
      [text |-> << "E", "M", "A", "I", "L", ":", " ", "a", "@", "b", " ", "f", "a", "i", "l", "e", "d" >>,
       kind |-> "form", count |-> << >>, secret |-> << >>],
      [text |-> << "P", "o", "r", "t", "a", "l", " ", "d", "a", "t", "a", " ", "s", "a", "v", "e", "d" >>,
       kind |-> "saved", count |-> << >>, secret |-> << >>],
      [text |-> << "P", "o", "r", "t", "a", "l", " ", "d", "a", "t", "a", " ", "s", "a", "v", "e", "d", ":", " ", "e", "r", "r", "o", "r" >>,
       kind |-> "saved", count |-> << >>, secret |-> << >>],
      [text |-> << "E", "r", "r", "o", "r", ":", " ", "x" >>,
       kind |-> "error", count |-> << >>, secret |-> << >>],
      [text |-> << "s", "t", "a", "r", "t", " ", "F", "A", "I", "L", "E", "D" >>,
       kind |-> "error", count |-> << >>, secret |-> << >>],
      [text |-> << "P", "o", "r", "t", "a", "l", " ", "s", "t", "a", "r", "t", "e", "d", " ", "s", "u", "c", "c", "e", "s", "s", "f", "u", "l", "l", "y" >>,
       kind |-> "success", count |-> << >>, secret |-> << >>],
      [text |-> << "A", "P", " ", "e", "n", "a", "b", "l", "e", "d" >>,
       kind |-> "success", count |-> << >>, secret |-> << >>],
      [text |-> << "b", "r", "o", "a", "d", "c", "a", "s", "t", "i", "n", "g" >>,
       kind |-> "success", count |-> << >>, secret |-> << >>],
      [text |-> << "h", "e", "l", "l", "o" >>,
       kind |-> "none", count |-> << >>, secret |-> << >>],
      [text |-> << "C", "l", "i", "e", "n", "t", " ", "c", "o", "n", "n", "e", "c", "t" >>,
       kind |-> "none", count |-> << >>, secret |-> << >>],
      [text |-> << "H", "a", "n", "d", "s", "h", "a", "k", "e", " ", "c", "a", "p", "t", "u", "r", "e", "d" >>,
       kind |-> "none", count |-> << >>, secret |-> << >>],
      [text |-> << "f", "i", "l", "e", ".", "p", "c", "a", "p" >>,
       kind |-> "none", count |-> << >>, secret |-> << >>] }

\* the telemetry before the line arrives
PortalPriors ==
    { [submitted_forms |-> 0, last_submitted_data |-> << >>, client_count |-> c]
         : c \in { 0, 2 } }
    \cup { [submitted_forms |-> 1, last_submitted_data |-> d, client_count |-> c]
              : d \in { << >>, << "F", "o", "r", "m", " ", "d", "a", "t", "a", ":", " ", "a" >> }, c \in { 0, 2 } }

EvilTwinPriors ==
    { [evil_twin_captured_data |-> d, evil_twin_client_count |-> c]
         : d \in { << >>, << << "P", "a", "s", "s", "w", "o", "r", "d", ":", " ", "a" >> >> }, c \in { 0, 1 } }

\* a session whose portal or evil twin listener is about to read a line
InitPortal ==
    /\ InitFields
    /\ \E st \in PortalPriors :
          /\ submitted_forms = st.submitted_forms
          /\ last_submitted_data = st.last_submitted_data
          /\ client_count = st.client_count
    /\ \E st \in EvilTwinPriors :
          /\ evil_twin_captured_data = st.evil_twin_captured_data
          /\ evil_twin_client_count = st.evil_twin_client_count
    /\ NoRead
    /\ networks = << >>
    /\ network_count = 0
    /\ line = << >>
    /\ phase = "classifying"

\* the portal listener hands one line to update_portal_display
update_portal_display_call ==
    /\ phase = "classifying"
    /\ \E c \in PortalCases :
          LET st == update_portal_display(PortalState, c.text)
          IN  /\ line' = c.text
              /\ submitted_forms' = st.submitted_forms
              /\ last_submitted_data' = st.last_submitted_data
              /\ client_count' = st.client_count
    /\ phase' = "portal"
    /\ UNCHANGED << pc, exiting, setup_for, flagVars, eventVars, threadVars,
                    sniffer_packets, evilTwinVars, closes, sent, netVars,
                    stop_all_streak, streak_stops, probeVars, readVars >>
    /\ UNCHANGED sendVars

\* the evil twin listener hands one line to update_evil_twin_display
update_evil_twin_display_call ==
    /\ phase = "classifying"
    /\ \E c \in PortalCases :
          LET st == update_evil_twin_display(EvilTwinState, c.text)
          IN  /\ line' = c.text
              /\ evil_twin_captured_data' = st.evil_twin_captured_data
              /\ evil_twin_client_count' = st.evil_twin_client_count
    /\ phase' = "evil_twin"
    /\ UNCHANGED << pc, exiting, setup_for, flagVars, eventVars, threadVars,
                    sniffer_packets, portalVars, closes, sent, netVars,
                    stop_all_streak, streak_stops, probeVars, readVars >>
    /\ UNCHANGED sendVars

NextPortal ==
    \/ update_portal_display_call
    \/ update_evil_twin_display_call

SpecPortal == InitPortal /\ [][NextPortal]_vars

\* what PortalCases says of a line
PortalCaseOf(l) == CHOOSE c \in PortalCases : c.text = l

\* the kinds whose events change no telemetry
QuietKinds == { "saved", "error", "success", "none" }

\* C24: the portal classifier handles a line as the first kind of the
\* priority order that it matches and as no later one: a client-connected
\* line only adds a client, a client-count line leaves the forms alone, a
\* password or form line counts one form and leaves the client count
\* alone, and a saved, error, success or unmatched line changes nothing.
C24_FirstMatchingKindOnly ==
    [][update_portal_display_call =>
          LET kind == PortalCaseOf(line').kind
          IN  /\ kind = "connected" =>
                   /\ client_count' = client_count + 1
                   /\ UNCHANGED << submitted_forms, last_submitted_data >>
              /\ kind = "count" =>
                   UNCHANGED << submitted_forms, last_submitted_data >>
              /\ kind = "password" =>
                   /\ submitted_forms' = submitted_forms + 1
                   /\ UNCHANGED client_count
              /\ kind = "form" =>
                   /\ submitted_forms' = submitted_forms + 1
                   /\ UNCHANGED client_count
              /\ kind \in QuietKinds => UNCHANGED portalVars]_vars

\* C24, the case: the line 'error Password: p' was counted as a form and
\* its password recorded
C24_ErrorWithPasswordIsPassword ==
    /\ phase = "portal"
    /\ line = << "e", "r", "r", "o", "r", " ", "P", "a", "s", "s", "w", "o", "r", "d", ":", " ", "p" >>
    /\ submitted_forms = 2
    /\ last_submitted_data = << "P", "a", "s", "s", "w", "o", "r", "d", ":", " ", "p" >>

\* C25: each kind of portal event makes its own change and no other:
\* client-connected adds 1 to the client count, client-count-update sets
\* it to the integer of the line, password-submission counts one form and
\* records the text after 'Password:', generic-form-submission counts one
\* form and records the line, the other kinds change nothing.
C25_EachKindItsOwnMutation ==
    [][update_portal_display_call =>
          LET c == PortalCaseOf(line')
          IN  /\ c.kind = "connected" =>
                   /\ client_count' = client_count + 1
                   /\ UNCHANGED << submitted_forms, last_submitted_data >>
              /\ (c.kind = "count" /\ c.count # << >>) =>
                   /\ client_count' = c.count[1]
                   /\ UNCHANGED << submitted_forms, last_submitted_data >>
              /\ c.kind = "password" =>
                   /\ submitted_forms' = submitted_forms + 1
                   /\ last_submitted_data' = TxtPasswordSp \o c.secret[1]
                   /\ UNCHANGED client_count
              /\ c.kind = "form" =>
                   /\ submitted_forms' = submitted_forms + 1
                   /\ last_submitted_data' = line'
                   /\ UNCHANGED client_count
              /\ c.kind \in QuietKinds => UNCHANGED portalVars]_vars

\* the portal kind an evil twin kind stands for
EvilTwinKindAsPortal(kind) == IF kind = "captured" THEN "password" ELSE kind

\* C26: the evil twin classifier gives every line the kind the portal
\* classifier gives it, and a 'Client count = N' line sets the evil twin
\* client count to N.
C26_EvilTwinClassifiesAsPortal ==
    [][update_evil_twin_display_call =>
          LET c == PortalCaseOf(line')
          IN  /\ EvilTwinKindAsPortal(evil_twin_kind(line'))
                    = portal_kind(line')
              /\ (c.kind = "count" /\ c.count # << >>) =>
                    evil_twin_client_count' = c.count[1]]_vars

\* lines that match no predicate of either classifier
UnmatchedLines == { TxtHello, << "C", "l", "i", "e", "n", "t", " ", "c", "o", "n", "n", "e", "c", "t" >> }

\* C27: a line that matches no predicate, or a 'Client count' line without
\* an integer to parse, changes no telemetry of the portal or of the evil
\* twin, whichever classifier receives it.
C27_UnmatchedLineChangesNothing ==
    [][(update_portal_display_call \/ update_evil_twin_display_call) =>
          LET c == PortalCaseOf(line')
          IN  (line' \in UnmatchedLines
                  \/ (c.kind = "count" /\ c.count = << >>))
                 => UNCHANGED << portalVars, evilTwinVars >>]_vars

-----------------------------------------------------------------------------
(* SerialManager.send_command step by step, under a caller (specification  *)
(* SpecSend).                                                              *)

\* calls of send_command one run makes
MaxSends == 2

\* the line terminator of line 499
CRLF == << "\r", "\n" >>

TxtStartBlackout == << "s", "t", "a", "r", "t", "_", "b", "l", "a", "c", "k", "o", "u", "t" >>
TxtStartHandshake == << "s", "t", "a", "r", "t", "_", "h", "a", "n", "d", "s", "h", "a", "k", "e" >>

\* the commands of start_blackout_attack (line 1346) and of
\* start_handshake_attack (line 1435)
SendCommands == { TxtStartBlackout, TxtStartHandshake }

\* an entry of io: a write or flush on the port, the sleep of line 502, the
\* message of line 504, the return of send_command
Did(op, data) == [op |-> op, data |-> data]

\* the calls of send_command that have returned
Returned == { k \in 1..Len(io) : io[k].op = "return" }

InitSend ==
    /\ InitSession
    /\ NoRead
    /\ networks = << >>
    /\ network_count = 0
    /\ line = << >>
    /\ phase = "sending"

\* start_blackout_attack or start_handshake_attack, confirmed, reaches its
\* call of send_command
send_command_call ==
    /\ pc = "menu"
    /\ send_pc = "idle"
    /\ Cardinality(Returned) < MaxSends
    /\ \E c \in SendCommands : command' = c
    /\ send_pc' = "write"
    /\ pc' = "sending"
    /\ UNCHANGED << exiting, setup_for, flagVars, eventVars, threadVars,
                    sniffer_packets, portalVars, evilTwinVars, closes, sent,
                    netVars, stop_all_streak, streak_stops, testVars, io >>

\* send_command with a failure of the write ignored
send_command_write_goes_on ==
    /\ send_pc = "write"
    /\ \E raised \in BOOLEAN :
          io' = Append(io, IF raised THEN Did("error", command)
                           ELSE Did("write", command \o CRLF))
    /\ send_pc' = "flush"
    /\ UNCHANGED << pc, exiting, setup_for, flagVars, eventVars, threadVars,
                    sniffer_packets, portalVars, evilTwinVars, closes, sent,
                    netVars, stop_all_streak, streak_stops, testVars,
                    command >>

\* lines 499-500: serial_conn.write(full_command.encode('utf-8')), which
\* may raise (write_timeout = 2, device unplugged); the handler of lines
\* 503-504 prints the failure
send_command_write ==
    /\ send_pc = "write"
    /\ \E raised \in BOOLEAN :
          IF raised
          THEN /\ io' = Append(io, Did("error", command))
               /\ send_pc' = "return"
          ELSE /\ io' = Append(io, Did("write", command \o CRLF))
               /\ send_pc' = "flush"
    /\ UNCHANGED << pc, exiting, setup_for, flagVars, eventVars, threadVars,
                    sniffer_packets, portalVars, evilTwinVars, closes, sent,
                    netVars, stop_all_streak, streak_stops, testVars,
                    command >>

\* send_command returning right after the flush
send_command_flush_returns ==
    /\ send_pc = "flush"
    /\ \E raised \in BOOLEAN :
          io' = Append(io, IF raised THEN Did("error", command)
                           ELSE Did("flush", << >>))
    /\ send_pc' = "return"
    /\ UNCHANGED << pc, exiting, setup_for, flagVars, eventVars, threadVars,
                    sniffer_packets, portalVars, evilTwinVars, closes, sent,
                    netVars, stop_all_streak, streak_stops, testVars,
                    command >>

\* line 501: serial_conn.flush(), which may raise as well
send_command_flush ==
    /\ send_pc = "flush"
    /\ \E raised \in BOOLEAN :
          IF raised
          THEN /\ io' = Append(io, Did("error", command))
               /\ send_pc' = "return"
          ELSE /\ io' = Append(io, Did("flush", << >>))
               /\ send_pc' = "sleep"
    /\ UNCHANGED << pc, exiting, setup_for, flagVars, eventVars, threadVars,
                    sniffer_packets, portalVars, evilTwinVars, closes, sent,
                    netVars, stop_all_streak, streak_stops, testVars,
                    command >>

\* line 502: time.sleep(0.1)
send_command_sleep ==
    /\ send_pc = "sleep"
    /\ io' = Append(io, Did("sleep", << >>))
    /\ send_pc' = "return"
    /\ UNCHANGED << pc, exiting, setup_for, flagVars, eventVars, threadVars,
                    sniffer_packets, portalVars, evilTwinVars, closes, sent,
                    netVars, stop_all_streak, streak_stops, testVars,
                    command >>

\* send_command returns, after the sleep or after its except clause, and
\* the caller goes on: line 1347 (blackout_running = True) or line 1436
\* (handshake_running = True), then back to the menu
send_command_return ==
    /\ send_pc = "return"
    /\ io' = Append(io, Did("return", command))
    /\ send_pc' = "idle"
    /\ IF command = TxtStartBlackout
       THEN blackout_running' = TRUE /\ UNCHANGED handshake_running
       ELSE handshake_running' = TRUE /\ UNCHANGED blackout_running
    /\ pc' = "menu"
    /\ UNCHANGED << exiting, setup_for, attack_running, sniffer_running,
                    sae_overflow_running, portal_running, evil_twin_running,
                    eventVars, threadVars, sniffer_packets, portalVars,
                    evilTwinVars, closes, sent, netVars, stop_all_streak,
                    streak_stops, testVars, command >>

NextSend ==
    \/ send_command_call
    \/ send_command_write
    \/ send_command_flush
    \/ send_command_sleep
    \/ send_command_return

SpecSend == InitSend /\ [][NextSend]_vars

\* the call that returned at entry k of io did so without a failure
ReturnedOk(k) == io[k].op = "return" /\ (k = 1 \/ io[k - 1].op # "error")

\* C28: a call of send_command that returns without a failure has, just
\* before returning, written the command followed by CR LF, then flushed,
\* then slept, in that order; and between the writes of two calls, the
\* first of which did not fail, there is a sleep.
C28_WriteFlushDelayInOrder ==
    /\ \A k \in 1..Len(io) :
          ReturnedOk(k) =>
             /\ k > 3
             /\ io[k - 3] = Did("write", io[k].data \o CRLF)
             /\ io[k - 2].op = "flush"
             /\ io[k - 1].op = "sleep"
    /\ \A i, j \in 1..Len(io) :
          (/\ i < j
           /\ io[i].op = "write"
           /\ io[j].op = "write"
           /\ \A m \in i..j : io[m].op # "error")
             => \E m \in i..j : io[m].op = "sleep"

\* C28, the case: two calls have returned without a failure
C28_TwoSendsDone ==
    /\ Cardinality(Returned) = 2
    /\ \A k \in Returned : ReturnedOk(k)
    /\ send_pc = "idle"

\* C29: a failure of the write or of the flush is printed and followed at
\* once by the return of send_command, without the sleep; the call returns
\* to its caller, which sets its running flag as after a send that went
\* through and is back at the menu.
C29_FailureAbandonsSend ==
    /\ \A k \in 1..Len(io) :
          io[k].op = "error" =>
             /\ k < Len(io) => io[k + 1] = Did("return", io[k].data)
             /\ k = Len(io) => (send_pc = "return" /\ command = io[k].data)
    /\ \A k \in Returned :
          /\ io[k].data = TxtStartBlackout => blackout_running
          /\ io[k].data = TxtStartHandshake => handshake_running
    /\ send_pc = "idle" => pc = "menu"

\* C29, the case: the flush of start_blackout failed, the call returned
\* and the blackout is marked running
C29_FailedSendFlagSet ==
    /\ Len(io) = 3
    /\ io[1].op = "write"
    /\ io[2] = Did("error", TxtStartBlackout)
    /\ io[3].op = "return"
    /\ blackout_running
    /\ pc = "menu"

-----------------------------------------------------------------------------
(* The sniffer and portal listeners under start and stop, with the         *)
(* listener threads scheduled fairly (specification SpecListen).           *)

\* a step of listener thread t: its loop head or the end of its readline()
ListenerStep(t) ==
    /\ t \in 1..Len(threads)
    /\ listener_poll \/ listener_readline
    /\ threads'[t] # threads[t]

NextListen ==
    \/ start_sniffer
    \/ start_sniffer_finally
    \/ setup_and_start_portal
    \/ get_html_files_from_sd
    \/ start_monitoring
    \/ start_portal_monitoring
    \/ start_portal_monitoring_finally
    \/ listener_poll
    \/ listener_readline

\* every listener thread keeps running: its 0.1 s sleep ends and its
\* readline() returns within READ_TIMEOUT of the last byte
SpecListen ==
    /\ Init
    /\ [][NextListen]_vars
    /\ \A t \in 1..MaxThreads : WF_vars(ListenerStep(t))

\* C30: a listener thread that is alive when the stop event of its feature
\* is set eventually exits.
C30_ListenerExitsAfterEvent ==
    \A t \in 1..MaxThreads :
       (t <= Len(threads) /\ Alive(t) /\ EventOf(threads[t].target))
          ~> (t <= Len(threads) /\ ~ Alive(t))

-----------------------------------------------------------------------------
(* The network count (specification SpecScan).                             *)

\* C40: in every reachable state network_count equals the number of
\* records in the network list.
C40_CountIsListLength == network_count = Len(networks)

\* a scan has stored records and has also read lines that gave no record
C40_CountedAfterSkippedLines ==
    /\ phase = "scanned"
    /\ Len(networks) >= 2
    /\ network_count = Len(networks)
    /\ \E k \in 1..Len(taken) : parse_network_line(taken[k]) = None

-----------------------------------------------------------------------------
(* Stopping the listener-backed features (specification Spec).             *)

\* the listener thread of a feature whose monitoring is on screen
MonitoredThread ==
    CASE pc = "sniffer_mon"   -> sniffer_thread
      [] pc = "portal_mon"    -> portal_thread
      [] pc = "evil_twin_mon" -> evil_twin_thread
      [] OTHER                -> 0

\* C31: stopping a feature always completes: wherever the foreground is
\* in a monitoring loop or at the menu, the stop can run to its end, the
\* join giving up after its grace period with the listener still alive.
C31_StopAlwaysCompletes ==
    /\ pc = "sniffer_mon" => ENABLED start_sniffer_finally
    /\ pc = "portal_mon" => ENABLED start_portal_monitoring_finally
    /\ pc = "evil_twin_mon" => ENABLED start_evil_twin_monitoring_finally
    /\ (pc = "menu" /\ ~ exiting) => ENABLED stop_all_attacks

\* the stop of the sniffer has returned to the menu while its listener is
\* still inside readline()
C31_StoppedWithListenerReading ==
    /\ pc = "menu"
    /\ ~ sniffer_running
    /\ stop_sniffer_event
    /\ sniffer_thread # 0
    /\ threads[sniffer_thread].st = "reading"

\* the running flag and the stop event of the feature whose monitoring is
\* on screen, after the step
MonitoredFlagAfter ==
    CASE pc = "sniffer_mon"   -> sniffer_running'
      [] pc = "portal_mon"    -> portal_running'
      [] pc = "evil_twin_mon" -> evil_twin_running'

MonitoredEventAfter ==
    CASE pc = "sniffer_mon"   -> stop_sniffer_event'
      [] pc = "portal_mon"    -> stop_portal_event'
      [] pc = "evil_twin_mon" -> stop_evil_twin_event'

C33_SpawnedOnResetCounters ==
    [][ Len(threads') > Len(threads) =>
          LET target == threads'[Len(threads')].target
          IN  /\ target = "sniffer" => sniffer_packets' = 0
              /\ target = "portal" =>
                    /\ submitted_forms' = 0
                    /\ last_submitted_data' = << >>
                    /\ client_count' = 0
              /\ target = "evil_twin" =>
                    /\ evil_twin_captured_data' = << >>
                    /\ evil_twin_client_count' = 0 ]_vars

\* the evil twin has been started a second time, the listener of its first
\* run still inside readline(), and its new listener has read nothing yet
C33_EvilTwinRestarted ==
    /\ pc = "evil_twin_mon"
    /\ Len(threads) = 2
    /\ threads[1].target = "evil_twin"
    /\ threads[1].st = "reading"
    /\ evil_twin_thread = 2
    /\ threads[2].st = "loop"
    /\ evil_twin_client_count = 0
    /\ evil_twin_captured_data = << >>

-----------------------------------------------------------------------------
(* Features side by side (specification Spec).                             *)

\* C34: there is no local mutual exclusion: at every menu prompt, whatever
\* flags are true, a confirmed start of each attack sends its command and
\* sets its flag (the deauth attack given a selection), and the sniffer,
\* the portal and the evil twin can be started (while the model follows
\* fewer than MaxThreads listener threads).
C34_StartNeverRefusedForAnotherFlag ==
    (pc = "menu" /\ ~ exiting) =>
       /\ selected_networks # << >> =>
             ENABLED (start_deauth_attack /\ sent' # << >> /\ attack_running')
       /\ ENABLED (start_blackout_attack /\ sent' # << >>
                      /\ blackout_running')
       /\ ENABLED (start_sae_overflow_attack /\ sent' # << >>
                      /\ sae_overflow_running')
       /\ ENABLED (start_handshake_attack /\ sent' # << >>
                      /\ handshake_running')
       /\ Len(threads) < MaxThreads =>
             /\ ENABLED (start_sniffer /\ sniffer_running')
             /\ ENABLED setup_and_start_portal
             /\ ENABLED setup_and_start_evil_twin

\* the deauth attack and the blackout attack are running at the same time
C34_DeauthAndBlackoutRunning ==
    /\ pc = "menu"
    /\ attack_running
    /\ blackout_running

\* how many of the seven running flags are true
RunningCount ==
    Cardinality({ i \in 1..7 :
                    << attack_running, blackout_running, sniffer_running,
                       sae_overflow_running, handshake_running,
                       portal_running, evil_twin_running >>[i] })

-----------------------------------------------------------------------------
(* The start-up drains of the portal and the evil twin, the lines read     *)
(* kept in `response` (specification SpecDrain).                           *)

AckFailed ==
    << "S", "t", "a", "r", "t", " ", "F", "a", "i", "l", "e", "d" >>
AckStartedButFailed == AckStarted \o << ",", " " >> \o TxtFailed

DrainLines ==
    { AckOther, AckStarted, AckBroadcasting, AckError, AckFailed,
      AckStartedButFailed }

\* what read_response(timeout=3) may return: up to two lines
DrainCases ==
    { << >> } \cup { << a >> : a \in DrainLines }
              \cup { << a, b >> : a \in DrainLines, b \in DrainLines }

start_portal_monitoring_drained ==
    /\ \E ls \in DrainCases :
          /\ start_portal_monitoring_on(ls)
          /\ response' = ls
    /\ phase' = "portal_drained"
    /\ UNCHANGED << line, probes, probe_count, readVars >>

start_evil_twin_monitoring_drained ==
    /\ \E ls \in DrainCases :
          /\ start_evil_twin_monitoring_on(ls)
          /\ response' = ls
    /\ phase' = "evil_twin_drained"
    /\ UNCHANGED << line, probes, probe_count, readVars >>

NextDrain ==
    \/ do_scan
    \/ do_scan_collect
    \/ setup_and_start_portal
    \/ setup_and_start_evil_twin
    \/ get_html_files_from_sd
    \/ start_monitoring
    \/ start_portal_monitoring_drained
    \/ start_portal_monitoring_finally
    \/ start_evil_twin_monitoring_drained
    \/ start_evil_twin_monitoring_finally
    \/ listener_poll
    \/ listener_readline

SpecDrain == Init /\ [][NextDrain]_vars

\* some line of ls contains one of the texts, whatever its case
SomeLineHas(ls, texts) ==
    \E k \in 1..Len(ls) : \E t \in texts : Contains(lower(ls[k]), t)

\* C36: the portal or evil twin listener is spawned and the flag left true
\* only if the start-up drain saw a success line ('started successfully',
\* or 'broadcasting' for the evil twin) and no drained line contained
\* 'error' or 'failed'; if any drained line contains 'error' or 'failed',
\* before or after a success line, the flag is false on return, the
\* counters are as they were and no listener is spawned.
C36_SpawnOnlyOnCleanSuccess ==
    [][ /\ (pc = "portal_drain" /\ pc' # pc) =>
              LET bad == SomeLineHas(response', { TxtError, TxtFailed })
                  ok  == SomeLineHas(response', { TxtStarted })
              IN  /\ (portal_running' \/ Len(threads') > Len(threads))
                        => (ok /\ ~ bad)
                  /\ bad => /\ ~ portal_running'
                            /\ UNCHANGED << portalVars, threads,
                                            portal_thread >>
        /\ (pc = "evil_twin_drain" /\ pc' # pc) =>
              LET bad == SomeLineHas(response', { TxtError, TxtFailed })
                  ok  == SomeLineHas(response',
                                     { TxtStarted, TxtBroadcasting })
              IN  /\ (evil_twin_running' \/ Len(threads') > Len(threads))
                        => (ok /\ ~ bad)
                  /\ bad => /\ ~ evil_twin_running'
                            /\ UNCHANGED << evilTwinVars, threads,
                                            evil_twin_thread >>
      ]_vars

\* a second start of the portal read its success line and then an error
\* line: the flag is false, the client count of the first run is kept and
\* there is still one listener thread
C36_ErrorAfterSuccessRefused ==
    /\ phase = "portal_drained"
    /\ response = << AckStarted, AckError >>
    /\ pc = "menu"
    /\ ~ portal_running
    /\ client_count > 0
    /\ Len(threads) = 1

-----------------------------------------------------------------------------
(* Flags at the menu (specification Spec).                                 *)

\* C37: whenever control is at a menu prompt the sniffer, portal and evil
\* twin flags are all false; only the deauth, blackout, sae-overflow and
\* handshake flags can be true there.
C37_ListenerFlagsFalseAtMenu ==
    pc = "menu" =>
       /\ ~ sniffer_running
       /\ ~ portal_running
       /\ ~ evil_twin_running

\* back at the menu after a sniffer run and a portal run, two attacks
\* without a listener still running
C37_AtMenuAfterListenerRuns ==
    /\ pc = "menu"
    /\ sniffer_thread # 0
    /\ portal_thread # 0
    /\ sae_overflow_running
    /\ handshake_running
    /\ ~ sniffer_running
    /\ ~ portal_running

-----------------------------------------------------------------------------
(* Leaving through the exit choice, the answer to "Stop before exit?"      *)
(* kept in `phase` (specification SpecExit).                               *)

\* the exit choice; the question is asked only with something running
main_menu_exit_answered ==
    /\ \E stop_confirm \in BOOLEAN :
          /\ main_menu_exit_on(stop_confirm)
          /\ phase' = IF ~ AnyRunning THEN "exit_unasked"
                      ELSE IF stop_confirm THEN "exit_yes" ELSE "exit_no"
    /\ UNCHANGED << line, probeVars, readVars >>

NextExit ==
    \/ do_scan
    \/ do_scan_collect
    \/ select_networks_menu
    \/ start_deauth_attack
    \/ start_blackout_attack
    \/ start_sae_overflow_attack
    \/ start_handshake_attack
    \/ stop_all_attacks
    \/ main_menu_exit_answered
    \/ cleanup

SpecExit == Init /\ [][NextExit]_vars

\* the 'stop' commands written since the exit choice was made
ExitStops == { k \in 1..Len(sent) : sent[k].cmd = "stop" }

\* C38: when features are running and the user answers 'no' to "Stop
\* before exit?", no 'stop' command is sent during exit and cleanup; when
\* the user confirms, exactly one 'stop' command is sent in total.
C38_StopOnExitFollowsAnswer ==
    pc = "done" =>
       /\ phase = "exit_no" => ExitStops = { }
       /\ phase = "exit_yes" => Cardinality(ExitStops) = 1

-----------------------------------------------------------------------------
(* Writes and the closing of the port (specification Spec).                *)

\* C39: no command write is attempted on the port after it has been
\* closed, on any shutdown path: every command in the log was written
\* while the port was open.
C39_NoWriteAfterClose ==
    \A k \in 1..Len(sent) : sent[k].ok

=============================================================================
